---- MODULE Spec2Model ----
(***************************************************************************)
(* Portfolio site: a remote-backed store (AppProvider) that mirrors one    *)
(* profile document and two collections into view state, the route gate   *)
(* (AppContent / ProtectedRoute), the login page and the admin editing     *)
(* surface.  The document store and the identity provider are remote:      *)
(* every call to them is split into the call, the remote's answer and the  *)
(* continuation that runs in the page when the answer arrives.             *)
(***************************************************************************)
EXTENDS Bags, FiniteSets, Integers, Sequences, TLC

\* ------------------------------------------------------------------ bounds
\* total number of store write operations started in one run
MaxWrites == 2
\* total number of sign-in / sign-out calls started in one run
MaxAuthCalls == 1

\* ----------------------------------------------------------------- strings
\* A string the code trims or compares is a sequence of one-character strings.
\* A character that has no place in a string of this notation is written as
\* the name of its code point ("U+00A0" is the one character NO-BREAK SPACE).
\* WhiteSpace and LineTerminator of the language definition: what
\* String.prototype.trim removes.
WS ==
  {"\t", "\n", "U+000B", "\f", "\r", " ", "U+00A0", "U+1680", "U+2000",
   "U+2001", "U+2002", "U+2003", "U+2004", "U+2005", "U+2006", "U+2007",
   "U+2008", "U+2009", "U+200A", "U+2028", "U+2029", "U+202F", "U+205F",
   "U+3000", "U+FEFF"}

RECURSIVE trimStart(_)
trimStart(s) == IF s # <<>> /\ Head(s) \in WS THEN trimStart(Tail(s)) ELSE s

RECURSIVE trimEnd(_)
trimEnd(s) ==
  IF s # <<>> /\ s[Len(s)] \in WS THEN trimEnd(SubSeq(s, 1, Len(s) - 1)) ELSE s

\* String.prototype.trim
trim(s) == trimEnd(trimStart(s))

Digits == <<"0", "1", "2", "3", "4", "5", "6", "7", "8", "9">>

\* value of a decimal digit character
DigitVal(c) == (CHOOSE i \in DOMAIN Digits : Digits[i] = c) - 1

\* s < t in the document store's string order (lexicographic by code unit);
\* of the characters a date string is made of, "-" sorts before every digit
RECURSIVE StrLess(_, _)
StrLess(s, t) ==
  LET CharCode(c) == IF c = "-" THEN 0 ELSE DigitVal(c) + 1
  IN  IF t = <<>> THEN FALSE
      ELSE IF s = <<>> THEN TRUE
      ELSE IF CharCode(Head(s)) # CharCode(Head(t))
           THEN CharCode(Head(s)) < CharCode(Head(t))
           ELSE StrLess(Tail(s), Tail(t))

\* A number of the language that holds an integer or an infinity (a
\* double) is written [neg, inf, mag]: its sign, whether it is infinite, and
\* the decimal digits of its magnitude, most significant first (<<>> for 0).
\* The arithmetic on long numbers is done on limbs: the values of the
\* groups of three decimal digits, most significant first.
\* Two forms keep an intermediate result from being computed again wherever
\* it is used: SubSeq(f, 1, n) is the function f on 1..n, which is f, as a
\* sequence; CHOOSE r \in {F(x) : x \in {e}} : TRUE is F(e).

\* the limbs of the number whose columns of radix 1000 hold the naturals s
\* (the carries are moved up), without leading zeros
normalise(s) ==
  LET n == Len(s) + 4
      pass(c) ==
        SubSeq([i \in 1..n |->
                  (c[i] % 1000) + (IF i < n THEN c[i + 1] \div 1000 ELSE 0)],
               1, n)
      cin(c, i) == \E j \in (i + 1)..n :
                     /\ c[j] >= 1000
                     /\ \A l \in (i + 1)..(j - 1) : c[l] = 999
      last(c) ==
        SubSeq([i \in 1..n |-> (c[i] + (IF cin(c, i) THEN 1 ELSE 0)) % 1000],
               1, n)
      strip(c) ==
        LET nonzero == {i \in 1..n : c[i] # 0}
        IN  IF nonzero = {} THEN <<>>
            ELSE SubSeq(c, CHOOSE i \in nonzero : \A l \in nonzero : i <= l, n)
      s0 == {SubSeq([i \in 1..n |-> IF i <= 4 THEN 0 ELSE s[i - 4]], 1, n)}
      s1 == {pass(c) : c \in s0}
      s2 == {pass(c) : c \in s1}
      \* after three passes a column holds at most 1002
      s3 == {pass(c) : c \in s2}
      s4 == {last(c) : c \in s3}
  IN  CHOOSE r \in {strip(c) : c \in s4} : TRUE

\* the limbs of a * b, for the limbs of a and of b
times(a, b) ==
  LET m == Len(a) + Len(b) - 1
      \* the sum of the products a[i] * b[k + 1 - i]
      column(k) ==
        BagCardinality([i \in {l \in 1..Len(a) :
                                 /\ k + 1 - l \in 1..Len(b)
                                 /\ a[l] * b[k + 1 - l] > 0} |->
                          a[i] * b[k + 1 - i]])
  IN  IF a = <<>> \/ b = <<>> THEN <<>>
      ELSE CHOOSE r \in {normalise(c) :
                           c \in {SubSeq([k \in 1..m |-> column(k)], 1, m)}} :
             TRUE

\* the limbs of b^n, for b from 2 to 5
RECURSIVE power(_, _)
power(b, n) ==
  LET RECURSIVE small(_)
      small(k) == IF k = 0 THEN 1 ELSE b * small(k - 1)
  IN  IF n <= 13 THEN CHOOSE r \in {normalise(<<v>>) : v \in {small(n)}} : TRUE
      ELSE CHOOSE r \in {times(x, y) : x \in {power(b, n \div 2)},
                                       y \in {power(b, n - n \div 2)}} : TRUE

\* the decimal digits of the limbs ls, without leading zeros
digits(ls) ==
  LET pow(k) == CASE k = 0 -> 100 [] k = 1 -> 10 [] OTHER -> 1
      n == 3 * Len(ls)
      strip(ds) ==
        LET nonzero == {i \in 1..n : ds[i] # 0}
        IN  IF nonzero = {} THEN <<>>
            ELSE SubSeq(ds, CHOOSE i \in nonzero : \A l \in nonzero : i <= l,
                        n)
  IN  CHOOSE r \in
        {strip(ds) :
           ds \in {SubSeq([i \in 1..n |->
                             (ls[(i + 2) \div 3] \div pow((i - 1) % 3)) % 10],
                          1, n)}} : TRUE

\* a < b for the digits of two magnitudes
magLess(a, b) ==
  \/ Len(a) < Len(b)
  \/ /\ Len(a) = Len(b)
     /\ \E i \in DOMAIN a : a[i] < b[i] /\ \A j \in 1..(i - 1) : a[j] = b[j]

\* the integer n as a number of the language
Num(n) ==
  LET a == IF n < 0 THEN 0 - n ELSE n
      RECURSIVE pow10(_)
      pow10(k) == IF k = 0 THEN 1 ELSE 10 * pow10(k - 1)
      len == Cardinality({k \in 0..9 : a >= pow10(k)})
  IN  [neg |-> n < 0, inf |-> FALSE,
       mag |-> SubSeq([i \in 1..len |-> (a \div pow10(len - i)) % 10],
                      1, len)]

\* x < y for two numbers of the language
numLess(x, y) ==
  LET below(a, b) == ~a.inf /\ (b.inf \/ magLess(a.mag, b.mag))
  IN  IF x.neg # y.neg THEN x.neg
      ELSE IF x.neg THEN below(y, x) ELSE below(x, y)

\* the double nearest to the integer with the decimal digits n (ties to the
\* even mantissa), as [inf, mag]: integers up to 2^53 are exact, beyond the
\* largest double the result is infinite
toDouble(n) ==
  LET P53 == <<9, 0, 0, 7, 1, 9, 9, 2, 5, 4, 7, 4, 0, 9, 9, 2>>
      Infinity == [inf |-> TRUE, mag |-> <<>>]
      limbs(ds) ==
        LET L == (Len(ds) + 2) \div 3
            at(p) == IF p >= 1 THEN ds[p] ELSE 0
        IN  SubSeq([j \in 1..L |->
                      LET p == Len(ds) - 3 * (L - j + 1) + 1
                      IN  at(p) * 100 + at(p + 1) * 10 + at(p + 2)],
                   1, L)
      \* the digits of the number with the digits ds, times b^k
      scale(ds, b, k) ==
        CHOOSE r \in {digits(p) :
                        p \in {times(x, y) : x \in {limbs(ds)},
                                             y \in {power(b, k)}}} : TRUE
      \* 2^k0 <= 10^(Len(n) - 1) <= n < 2^(k0 + 5), so that
      \* Floor(n / 2^k0) = Floor(n * 5^k0 / 10^k0) is from 1 to 31
      k0 == ((Len(n) - 1) * 33219) \div 10000
      \* the number of bits of n, from lead = n * 5^k0
      bits(lead) ==
        LET q == IF Len(lead) = k0 + 1 THEN lead[1]
                 ELSE lead[1] * 10 + lead[2]
        IN  k0 + Cardinality({k \in {1, 2, 4, 8, 16} : k <= q})
      \* the mantissa m * 2^e as a double
      pack(m, e) ==
        IF e > 971 \/ (e = 971 /\ m = P53) THEN Infinity
        ELSE [inf |-> FALSE, mag |-> scale(m, 2, e)]
      \* the 54 leading bits m54 of n, rounded to 53: half of m54, and one
      \* more when the bits dropped are more than half of the last place, or
      \* half of it and the mantissa is odd
      round(m54, sticky) ==
        LET k == Len(m54)
            half == SubSeq([i \in 1..k |->
                              ((IF i > 1 THEN (m54[i - 1] % 2) * 10 ELSE 0)
                                 + m54[i]) \div 2],
                           1, k)
            up == /\ m54[k] % 2 = 1
                  /\ sticky \/ half[k] % 2 = 1
            nines(i) == \A l \in (i + 1)..k : half[l] = 9
            next == SubSeq([i \in 1..k |->
                              IF nines(i) THEN (half[i] + 1) % 10
                              ELSE half[i]],
                           1, k)
            m == IF up THEN next ELSE half
        IN  IF m[1] = 0 THEN Tail(m) ELSE m
      \* Floor(n / 2^e) = Floor(n * 5^e / 10^e), from scaled = n * 5^e
      leading(scaled, e) ==
        CHOOSE r \in
          {pack(m, e + 1) :
             m \in {round(SubSeq(scaled, 1, Len(scaled) - e),
                          \E i \in (Len(scaled) - e + 1)..Len(scaled) :
                            scaled[i] # 0)}} : TRUE
      from(lead) ==
        CHOOSE r \in {leading(scaled, bits(lead) - 54) :
                        scaled \in {scale(n, 5, bits(lead) - 54)}} : TRUE
  IN  IF magLess(n, P53) \/ n = P53 THEN [inf |-> FALSE, mag |-> n]
      ELSE IF Len(n) > 309 THEN Infinity
      ELSE CHOOSE r \in {from(lead) : lead \in {scale(n, 5, k0)}} : TRUE

\* parseInt(value) || 0: leading white space, a sign, then the digits up to
\* the first other character, hexadecimal after "0x" or "0X" and decimal
\* otherwise; the result is a double; no digit gives NaN, and || turns NaN
\* and both zeros into 0
parseIntOr0(value) ==
  LET t == trimStart(value)
      signed == t # <<>> /\ Head(t) \in {"-", "+"}
      body == IF signed THEN Tail(t) ELSE t
      hex == Len(body) >= 2 /\ body[1] = "0" /\ body[2] \in {"x", "X"}
      R == IF hex THEN 16 ELSE 10
      Lower == Digits \o <<"a", "b", "c", "d", "e", "f">>
      Upper == Digits \o <<"A", "B", "C", "D", "E", "F">>
      isDigit(c) == \E i \in 1..R : Lower[i] = c \/ Upper[i] = c
      val(c) == (CHOOSE i \in 1..R : Lower[i] = c \/ Upper[i] = c) - 1
      \* the values of the digits S starts with, without leading zeros
      read(S) ==
        LET other == {i \in 1..Len(S) : ~isDigit(S[i])}
            end == IF other = {} THEN Len(S)
                   ELSE (CHOOSE i \in other : \A l \in other : i <= l) - 1
            nonzero == {i \in 1..end : S[i] # "0"}
            first == IF nonzero = {} THEN end + 1
                     ELSE CHOOSE i \in nonzero : \A l \in nonzero : i <= l
        IN  [any |-> end > 0,
             ds |-> SubSeq([i \in 1..end |-> IF i < first THEN 0
                                             ELSE val(S[i])],
                           first, end)]
      \* the limbs of a + b
      plus(a, b) ==
        LET n == IF Len(a) > Len(b) THEN Len(a) ELSE Len(b)
            at(c, i) == IF i > n - Len(c) THEN c[i - (n - Len(c))] ELSE 0
        IN  CHOOSE r \in
              {normalise(c) :
                 c \in {SubSeq([i \in 1..n |-> at(a, i) + at(b, i)], 1, n)}} :
              TRUE
      \* the limbs of the number with the hexadecimal digits hs
      RECURSIVE fromHex(_)
      fromHex(hs) ==
        LET RECURSIVE small(_)
            small(k) == IF k = 0 THEN 0 ELSE small(k - 1) * 16 + hs[k]
            h == Len(hs) \div 2
        IN  IF Len(hs) <= 7
            THEN CHOOSE r \in {normalise(<<v>>) : v \in {small(Len(hs))}} :
                   TRUE
            ELSE CHOOSE r \in
                   {plus(x, lo) :
                      x \in {times(hi, p) :
                               hi \in {fromHex(SubSeq(hs, 1, h))},
                               p \in {power(2, 4 * (Len(hs) - h))}},
                      lo \in {fromHex(SubSeq(hs, h + 1, Len(hs)))}} : TRUE
      double(Z) ==
        IF ~hex THEN toDouble(Z)
        ELSE IF Len(Z) > 256 THEN [inf |-> TRUE, mag |-> <<>>]
        ELSE CHOOSE r \in {toDouble(ds) :
                             ds \in {digits(ls) : ls \in {fromHex(Z)}}} : TRUE
      result(Z) ==
        LET d == double(Z.ds)
        IN  IF ~Z.any \/ (~d.inf /\ d.mag = <<>>) THEN Num(0)
            ELSE [neg |-> signed /\ Head(t) = "-", inf |-> d.inf,
                  mag |-> d.mag]
  IN  CHOOSE r \in
        {result(Z) :
           Z \in {read(S) :
                    S \in {IF hex THEN SubSeq(body, 3, Len(body))
                           ELSE body}}} : TRUE

\* the day of the calendar date "Y-MM-DD", counted from 1970-01-01; the
\* year Y of a date input has four digits or more
dayNumber(s) ==
  LET \* decimal value of the digits s[i..j]
      RECURSIVE NumAt(_, _)
      NumAt(i, j) ==
        IF j < i THEN 0 ELSE NumAt(i, j - 1) * 10 + DigitVal(s[j])
      \* the years y and the months mp counted from the first of March
      days(y, mp, d) ==
        (y \div 400) * 146097 + (y % 400) * 365 + (y % 400) \div 4
          - (y % 400) \div 100 + (153 * mp + 2) \div 5 + d - 1 - 719468
      civil(y, m, d) ==
        days(IF m <= 2 THEN y - 1 ELSE y, IF m > 2 THEN m - 3 ELSE m + 9, d)
  IN  civil(NumAt(1, Len(s) - 6), NumAt(Len(s) - 4, Len(s) - 3),
            NumAt(Len(s) - 1, Len(s)))

\* the time zone of the browser, as new Date().getTimezoneOffset() gives it:
\* the minutes local time is behind UTC (a zone without daylight saving
\* time, so that it is the same on every date)
VARIABLE timezoneOffset

\* new Date(s).getTime() as [nan, day, min]: days and minutes since the
\* epoch instead of milliseconds. "YYYY-MM-DD" is the date-only form of the
\* language and means UTC midnight; a year of more digits is not, the
\* engine's own parser reads it as local midnight; a time after day
\* 100000000 is NaN, and so is a string that is no date
getTime(s) ==
  LET off == IF Len(s) > 10 THEN timezoneOffset ELSE 0
      time(day, min) ==
        IF Len(s) < 10 \/ day > 100000000 \/ (day = 100000000 /\ min > 0)
        THEN [nan |-> TRUE, day |-> 0, min |-> 0]
        ELSE [nan |-> FALSE, day |-> day, min |-> min]
  IN  time(dayNumber(s) + (IF off < 0 THEN 0 - 1 ELSE 0),
           IF off < 0 THEN 1440 + off ELSE off)

\* (a, b) => new Date(b.date).getTime() - new Date(a.date).getTime()  is < 0
\* (a difference with NaN is NaN, which is not)
byDateDesc(a, b) ==
  LET less(x, y) ==
        /\ ~x.nan /\ ~y.nan
        /\ x.day < y.day \/ (x.day = y.day /\ x.min < y.min)
  IN  less(getTime(b.date), getTime(a.date))

\* (a, b) => b.order - a.order  is < 0 (the difference of two infinities of
\* one sign is NaN, which is not)
byOrderDesc(a, b) == numLess(b.order, a.order)

\* Array.prototype.sort((a, b) => ...) with the comparator named cmp. The
\* sort is stable; when the comparator gives NaN (taken as 0) the result
\* depends on the comparisons made, which are the engine's (V8, arrays of
\* fewer than 64 elements): the run the array starts with is reversed if it
\* is strictly descending, the other elements are inserted by binary search
sortWith(s, cmp) ==
  LET negative(x, y) ==
        IF cmp = "byDateDesc" THEN byDateDesc(x, y) ELSE byOrderDesc(x, y)
      n == Len(s)
      \* the end of the run that starts with s[1], s[2]
      RECURSIVE runEnd(_, _)
      runEnd(i, descending) ==
        IF i < n /\ negative(s[i + 1], s[i]) = descending
        THEN runEnd(i + 1, descending)
        ELSE i
      run(r, descending) ==
        IF descending THEN SubSeq([i \in 1..r |-> s[r + 1 - i]], 1, r)
        ELSE SubSeq(s, 1, r)
      RECURSIVE place(_, _, _, _)
      place(a, x, left, right) ==
        IF left < right
        THEN IF negative(x, a[left + (right - left) \div 2 + 1])
             THEN place(a, x, left, left + (right - left) \div 2)
             ELSE place(a, x, left + (right - left) \div 2 + 1, right)
        ELSE left
      insert(a, x, at) ==
        SubSeq(a, 1, at) \o <<x>> \o SubSeq(a, at + 1, Len(a))
      RECURSIVE insertFrom(_, _)
      insertFrom(a, i) ==
        IF i > n THEN a
        ELSE CHOOSE t \in
               {insertFrom(b, i + 1) :
                  b \in {insert(a, s[i], at) :
                           at \in {place(a, s[i], 0, Len(a))}}} : TRUE
      from(descending) ==
        CHOOSE t \in
          {insertFrom(a, r + 1) :
             <<a, r>> \in {<<run(e, descending), e>> :
                             e \in {runEnd(2, descending)}}} : TRUE
  IN  IF n < 2 THEN s
      ELSE CHOOSE t \in {from(d) : d \in {negative(s[2], s[1])}} : TRUE

SeqToSet(s) == {s[i] : i \in DOMAIN s}
Ids(s) == {s[i].id : i \in DOMAIN s}


\* ------------------------------------------------------------ record helpers
Null == [null |-> TRUE]

\* { ...a, ...b }
spread(a, b) ==
  [f \in DOMAIN a \cup DOMAIN b |-> IF f \in DOMAIN b THEN b[f] ELSE a[f]]

\* const { id, ...dataToUpdate } = rec
withoutId(rec) == [f \in DOMAIN rec \ {"id"} |-> rec[f]]

\* { ...data, id: id }
withId(data, id) == spread(data, [id |-> id])

\* ------------------------------------------------------------------- data
Go == <<"G", "o">>
Rust == <<"R", "u", "s", "t">>
Url == <<"u">>
UrlPadded == <<" ", "u", " ">>

\* new Date().toISOString().split('T')[0] on the day of the run
Today == <<"2", "0", "2", "4", "-", "0", "3", "-", "1", "5">>

\* what the admin types into the project form
DraftX ==
  [title |-> "X", shortDescription |-> "sx", longDescription |-> "lx",
   technologies |-> <<Go>>, imageUrl |-> UrlPadded, githubUrl |-> <<>>,
   liveUrl |-> <<>>,
   date |-> <<"2", "0", "2", "4", "-", "0", "1", "-", "0", "1">>]

DraftY ==
  [title |-> "Y", shortDescription |-> "sy", longDescription |-> "ly",
   technologies |-> <<Rust>>, imageUrl |-> <<>>, githubUrl |-> Url,
   liveUrl |-> UrlPadded,
   date |-> <<"2", "0", "2", "4", "-", "0", "6", "-", "0", "1">>]

ProjectDrafts == {DraftX, DraftY}

\* what the admin types into the experience form
DraftA ==
  [role |-> "A", company |-> "ca", period |-> "2020 - 2022",
   description |-> "da", order |-> Num(1)]

DraftB ==
  [role |-> "B", company |-> "cb", period |-> "2022 - 2024",
   description |-> "db", order |-> Num(2)]

ExperienceDrafts == {DraftA, DraftB}

defaultUserInfo ==
  [name |-> "Loading...", specialization |-> "Fullstack developer",
   city |-> "City", bio |-> "Loading information...",
   avatarUrl |-> <<>>, resumeUrl |-> <<>>,
   contacts |-> [email |-> <<>>, telegram |-> <<>>, linkedin |-> <<>>,
                 github |-> <<>>],
   skills |-> <<>>]

\* what the admin types into the profile form
DraftInfo ==
  [name |-> "N", specialization |-> "Fullstack developer", city |-> "C",
   bio |-> "b", avatarUrl |-> UrlPadded, resumeUrl |-> Url,
   contacts |-> [email |-> <<>>, telegram |-> UrlPadded, linkedin |-> <<>>,
                 github |-> Url],
   skills |-> <<[name |-> Go]>>]

UserInfoDrafts == {DraftInfo}

\* the inputs of the three forms that report to handleChange, by name
ProjectInputs ==
  {"title", "shortDescription", "longDescription", "date", "imageUrl",
   "githubUrl", "liveUrl"}
ExperienceInputs == {"role", "company", "period", "description", "order"}
UserInfoInputs ==
  {"name", "specialization", "city", "resumeUrl", "bio", "avatarUrl"}
\* the inputs of the profile form that report to handleContactChange
ContactInputs == {"email", "telegram", "linkedin", "github"}

\* change events <<name, value>> that type the values of draft d into the
\* inputs names
typedInto(d, names) == {<<n, d[n]>> : n \in names}

\* a date input takes years of more than four digits
FarDate == <<"1", "2", "3", "4", "5", "-", "0", "6", "-", "0", "1">>

\* Array.prototype.includes
includes(arr, x) == \E i \in DOMAIN arr : arr[i] = x

\* arr.filter((_, index) => index !== indexToRemove), indexes from 0
removeAt(arr, indexToRemove) ==
  IF indexToRemove + 1 \notin DOMAIN arr THEN arr
  ELSE [j \in 1..(Len(arr) - 1) |->
          IF j <= indexToRemove THEN arr[j] ELSE arr[j + 1]]

\* mutant: the tag is appended without looking for it in the list
handleAddTech_unchecked(technologies, currentTech) ==
  IF trim(currentTech) # <<>> THEN Append(technologies, trim(currentTech))
  ELSE technologies

\* ProjectForm.handleAddTech: the draft's technologies after Add with
\* currentTech in the tag input
handleAddTech(technologies, currentTech) ==
  LET trimmedTech == trim(currentTech)
  IN  IF trimmedTech # <<>> /\ ~includes(technologies, trimmedTech)
      THEN Append(technologies, trimmedTech)
      ELSE technologies

\* ProjectForm.handleRemoveTech
handleRemoveTech(technologies, indexToRemove) ==
  removeAt(technologies, indexToRemove)

\* UserInfoForm.handleAddSkill: the draft's skills after Add with newSkill
\* in the skill input
handleAddSkill(skills, newSkill) ==
  LET trimmedSkill == trim(newSkill)
  IN  IF trimmedSkill # <<>>
         /\ ~\E i \in DOMAIN skills : skills[i].name = trimmedSkill
      THEN Append(skills, [name |-> trimmedSkill])
      ELSE skills

\* UserInfoForm.handleRemoveSkill
handleRemoveSkill(skills, indexToRemove) == removeAt(skills, indexToRemove)

\* what the admin types into the tag and skill inputs
TypedNames ==
  {Go, <<" ", "G", "o", " ">>, <<"g", "o">>, Rust, <<" ">>}

\* mutant: the draft is passed on as typed
trimProject_asDrafted(formData) == formData

\* ProjectForm.handleSubmit: trimmedData
trimProject(formData) ==
  spread(formData, [imageUrl |-> trim(formData.imageUrl),
                    githubUrl |-> trim(formData.githubUrl),
                    liveUrl |-> trim(formData.liveUrl)])

\* UserInfoForm.handleSubmit: dataToSave
trimUserInfo(formData) ==
  spread(formData,
         [avatarUrl |-> trim(formData.avatarUrl),
          resumeUrl |-> trim(formData.resumeUrl),
          contacts |-> [email |-> trim(formData.contacts.email),
                        telegram |-> trim(formData.contacts.telegram),
                        linkedin |-> trim(formData.contacts.linkedin),
                        github |-> trim(formData.contacts.github)]])

\* documents the collections hold when the page is opened: written by an
\* earlier session through the same forms
SeedProject == withId(trimProject(DraftY), 1)
SeedExperience == withId(DraftA, 2)
SeedIds == {SeedProject.id, SeedExperience.id}
\* another content of the projects collection: project X alone
SeedX == withId(trimProject(DraftX), 1)

\* ------------------------------------------------- document store (remote)
\* the store's order on a field: strings by their characters, numbers by value
fieldLess(field, a, b) ==
  IF field = "date" THEN StrLess(a.date, b.date)
  ELSE numLess(a.order, b.order)

\* query(collection, orderBy(field, 'desc')): the sequences the query can
\* answer with, the documents greatest first. Documents equal in the field
\* come in the order of their names in the store, which the client library
\* draws at random (addDoc), so that either order can be the answer
orderByDesc(docs, field) ==
  LET RECURSIVE run(_)
      run(left) ==
        IF left = {} THEN {<<>>}
        ELSE UNION {{<<top>> \o rest : rest \in run(left \ {top})} :
                      top \in {d \in left :
                                 \A e \in left : ~fieldLess(field, d, e)}}
  IN  run(docs)

\* orderBy('date', 'desc'): date is stored as a string; the possible answers
projectsQuery(docs) == orderByDesc(docs, "date")

\* orderBy('order', 'desc'): order is stored as a number; the possible
\* answers
experienceQuery(docs) == orderByDesc(docs, "order")

\* addDoc: a new document under an id the store picks
addDoc(docs, data, id) == docs \cup {withId(data, id)}

\* updateDoc: fails when the document does not exist
canUpdateDoc(docs, id) == \E d \in docs : d.id = id

updateDoc(docs, id, data) ==
  {IF d.id = id THEN spread(d, data) ELSE d : d \in docs}

\* deleteDoc: succeeds whether or not the document exists
deleteDoc(docs, id) == {d \in docs : d.id # id}

\* setDoc(ref, data, { merge: true }) on the profile document
setDocMerge(old, data) ==
  IF old = Null THEN data
  ELSE spread(spread(old, data),
              [contacts |-> spread(old.contacts, data.contacts)])

\* ------------------------------------------------- store: local view updates
\* addProject: setProjects(prev => [{...projectData, id}, ...prev].sort(byDate))
addProject(prev, projectData, id) ==
  sortWith(<<withId(projectData, id)>> \o prev, "byDateDesc")

\* mutant: the updated values are not put into the list
updateProject_unapplied(prev, updatedProject) == prev

\* updateProject: prev.map(p => p.id === updated.id ? updated : p).sort(byDate)
updateProject(prev, updatedProject) ==
  sortWith([i \in DOMAIN prev |->
              IF prev[i].id = updatedProject.id THEN updatedProject ELSE prev[i]],
           "byDateDesc")

\* mutant: the filter keeps the project it should drop
deleteProject_inverted(prev, id) == SelectSeq(prev, LAMBDA p : p.id = id)

\* deleteProject: prev.filter(p => p.id !== id)
deleteProject(prev, id) == SelectSeq(prev, LAMBDA p : p.id # id)

\* mutant: the new entry is prepended and the list is not sorted again
addExperience_unsorted(prev, expData, id) == <<withId(expData, id)>> \o prev

\* addExperience: [{...expData, id}, ...prev].sort((a, b) => b.order - a.order)
addExperience(prev, expData, id) ==
  sortWith(<<withId(expData, id)>> \o prev, "byOrderDesc")

\* updateExperience: prev.map(e => e.id === updated.id ? updated : e).sort(...)
updateExperience(prev, updatedExp) ==
  sortWith([i \in DOMAIN prev |->
              IF prev[i].id = updatedExp.id THEN updatedExp ELSE prev[i]],
           "byOrderDesc")

\* deleteExperience: prev.filter(e => e.id !== id)
deleteExperience(prev, id) == SelectSeq(prev, LAMBDA e : e.id # id)


\* ------------------------------------------------------------------ state
VARIABLES
  \* document store
  rUserInfo,      \* the profile document userInfo/main, Null when absent
  rExperience,    \* the experience collection, a set of documents
  rProjects,      \* the projects collection, a set of documents
  nextId,         \* the next document id addDoc hands out
  \* identity provider
  session,        \* the provider's current session: NoUser or TheUser
  authQueue,      \* notifications to the onAuthStateChanged subscriber, in order
  loginCall,      \* the signInWithEmailAndPassword call of LoginPage.handleLogin
  logoutCall,     \* the signOut call of Header.handleLogout
  authCalls,      \* sign-in and sign-out calls started so far
  \* AppProvider
  userInfo, experience, projects, user, loading,
  fetchPc,        \* the read fetchData is waiting for, "done" once it returned
  fetchResp,      \* the remote's answer to that read, on its way to the page
  authChecked,    \* the first identity notification has been delivered
  consoleLog,     \* messages written with console.error
  \* router and pages
  route,          \* the fragment route
  loginPage,      \* LoginPage state, Null while it is not mounted
  admin,          \* AdminPage state with its forms, Null while not mounted
  ops,            \* store write operations in flight, in the order started
  started,        \* store write operations started so far
  written,        \* entity key -> what the last completed write left of it
  committed,      \* every version the document store has held, deleted ids
  unhandled,      \* promise rejections no handler caught
  redirected,     \* the provider's session at the last gate redirect
  projectsPage,   \* ProjectsPage state, Null while it is not mounted
  declined        \* id of the entry whose delete prompt was last declined

remoteVars == <<rUserInfo, rExperience, rProjects, nextId>>
authVars == <<session, authQueue, loginCall, logoutCall, authCalls>>
localVars == <<userInfo, experience, projects>>
fetchVars == <<fetchPc, fetchResp>>
vars == <<rUserInfo, rExperience, rProjects, nextId, session, authQueue,
          loginCall, logoutCall, authCalls, userInfo, experience, projects,
          user, loading, fetchPc, fetchResp, authChecked, consoleLog, route,
          loginPage, admin, ops, started, written, committed, unhandled,
          redirected, projectsPage, declined, timezoneOffset>>

NoUser == "null"
TheUser == "uid1"
Routes == {"/", "/projects", "/login", "/admin"}
Tabs == {"projects", "experience", "info"}
NoResp == [st |-> "none"]
NoCall == [st |-> "none", live |-> FALSE]

ProjectKinds == {"addProject", "updateProject", "deleteProject"}
ExperienceKinds == {"addExperience", "updateExperience", "deleteExperience"}
AddKinds == {"addProject", "addExperience"}
UpdateKinds == {"updateProject", "updateExperience"}
DeleteKinds == {"deleteProject", "deleteExperience"}

\* the form whose submit handler awaits a store operation of this kind
formOf(kind) ==
  CASE kind \in {"addProject", "updateProject"} -> "projectForm"
    [] kind \in {"addExperience", "updateExperience"} -> "experienceForm"
    [] kind = "updateUserInfo" -> "userInfoForm"
    [] OTHER -> "none"

\* --------------------------------------------------------- component state
\* ProjectForm: useState initial values; seededFrom records the identity of
\* the entry the draft was initialised from (0: an Add draft)
ProjectForm(projectToEdit) ==
  [formData |->
     IF projectToEdit = Null
     THEN [title |-> "", shortDescription |-> "", longDescription |-> "",
           technologies |-> <<>>, imageUrl |-> <<>>, githubUrl |-> <<>>,
           liveUrl |-> <<>>, date |-> Today]
     ELSE [title |-> projectToEdit.title,
           shortDescription |-> projectToEdit.shortDescription,
           longDescription |-> projectToEdit.longDescription,
           technologies |-> projectToEdit.technologies,
           imageUrl |-> projectToEdit.imageUrl,
           githubUrl |-> projectToEdit.githubUrl,
           liveUrl |-> projectToEdit.liveUrl,
           date |-> IF projectToEdit.date = <<>> THEN Today
                    ELSE projectToEdit.date],
   isSaving |-> FALSE,
   seededFrom |-> IF projectToEdit = Null THEN 0 ELSE projectToEdit.id]

\* ExperienceForm: useState initial values; seededFrom as in ProjectForm
ExperienceForm(experienceToEdit) ==
  [formData |->
     IF experienceToEdit = Null
     THEN [role |-> "", company |-> "", period |-> "", description |-> "",
           order |-> Num(0)]
     ELSE [role |-> experienceToEdit.role, company |-> experienceToEdit.company,
           period |-> experienceToEdit.period,
           description |-> experienceToEdit.description,
           order |-> experienceToEdit.order],
   isSaving |-> FALSE,
   seededFrom |-> IF experienceToEdit = Null THEN 0 ELSE experienceToEdit.id]

\* UserInfoForm: useState initial values
UserInfoForm(currentUserInfo) ==
  [formData |-> currentUserInfo, isSaving |-> FALSE]

\* the filter choice that stands for every project
All == <<"A", "l", "l">>

\* ProjectsPage: useState initial values
ProjectsPage == [activeFilter |-> All]

\* projects.flatMap(p => p.technologies)
RECURSIVE flatTechnologies(_)
flatTechnologies(ps) ==
  IF ps = <<>> THEN <<>>
  ELSE ps[1].technologies \o flatTechnologies(Tail(ps))

\* Array.from(new Set(arr)): the first occurrence of every element, in order
RECURSIVE unique(_)
unique(arr) ==
  IF arr = <<>> THEN <<>>
  ELSE LET u == unique(SubSeq(arr, 1, Len(arr) - 1))
       IN  IF includes(u, arr[Len(arr)]) THEN u ELSE Append(u, arr[Len(arr)])

\* ProjectsPage: the filter choices offered
allTechnologies(ps) == <<All>> \o unique(flatTechnologies(ps))

\* mutant: the gallery ignores the filter
filteredProjects_all(ps, activeFilter) == ps

\* ProjectsPage: the projects the gallery shows
filteredProjects(ps, activeFilter) ==
  IF activeFilter = All THEN ps
  ELSE SelectSeq(ps, LAMBDA q : includes(q.technologies, activeFilter))

\* LoginPage: useState initial values
LoginPage == [error |-> "", isLoggingIn |-> FALSE]

\* AdminPage: useState initial values; the three forms are its children
AdminPage ==
  [activeTab |-> "projects",
   editingProject |-> Null, isProjectFormVisible |-> FALSE,
   editingExperience |-> Null, isExperienceFormVisible |-> FALSE,
   projectForm |-> Null, experienceForm |-> Null, userInfoForm |-> Null]

\* AdminPage render: which form is mounted; a form that appears starts from
\* its initial state, a form that disappears loses its state
renderAdmin(a, info) ==
  [a EXCEPT
     !.projectForm =
        IF a.activeTab = "projects" /\ a.isProjectFormVisible
        THEN (IF @ = Null THEN ProjectForm(a.editingProject) ELSE @)
        ELSE Null,
     !.experienceForm =
        IF a.activeTab = "experience" /\ a.isExperienceFormVisible
        THEN (IF @ = Null THEN ExperienceForm(a.editingExperience) ELSE @)
        ELSE Null,
     !.userInfoForm =
        IF a.activeTab = "info"
        THEN (IF @ = Null THEN UserInfoForm(info) ELSE @)
        ELSE Null]

\* mutant: the gate renders its children for any user
ProtectedRoute_open(l, u) == IF l THEN "checking" ELSE "children"

\* ProtectedRoute: what the gate renders for loading l and user u
ProtectedRoute(l, u) ==
  IF l THEN "checking" ELSE IF u # NoUser THEN "children" ELSE "redirect"

\* AppContent: the router is mounted once loading is false
routerMounted(l) == ~l

\* One render pass of AppContent after state setters ran with the values l
\* (loading), u (user), r (route), a (AdminPage state), lp (LoginPage state),
\* o (operations), lc (sign-in call) and info (userInfo): the route gate
\* redirects, pages outside the route unmount, and the continuation of a
\* call whose component unmounted no longer reaches that component.
Render(l, u, r, a, lp, o, lc, info) ==
  LET gate == IF routerMounted(l) /\ r = "/admin" THEN ProtectedRoute(l, u)
              ELSE "none"
      \* <Navigate to="/login" replace />
      r2 == IF gate = "redirect" THEN "/login" ELSE r
      a2 == IF gate = "children"
            THEN renderAdmin(IF a = Null THEN AdminPage ELSE a, info)
            ELSE Null
      \* a pass through /admin unmounts LoginPage before the gate leads
      \* back to /login, where a new one mounts
      lp1 == IF gate = "redirect" THEN Null ELSE lp
      lp2 == IF routerMounted(l) /\ r2 = "/login"
             THEN (IF lp1 = Null THEN LoginPage ELSE lp1)
             ELSE Null
  IN  /\ loading' = l
      /\ redirected' = IF gate = "redirect" THEN session ELSE redirected
      /\ user' = u
      /\ route' = r2
      /\ admin' = a2
      /\ loginPage' = lp2
      /\ projectsPage' = IF routerMounted(l) /\ r2 = "/projects"
                         THEN (IF projectsPage = Null THEN ProjectsPage
                               ELSE projectsPage)
                         ELSE Null
      /\ loginCall' = [lc EXCEPT !.live = @ /\ lp1 # Null /\ lp2 # Null]
      /\ ops' = [i \in DOMAIN o |->
                   [o[i] EXCEPT
                      !.adminLive = @ /\ a2 # Null,
                      !.formLive = @ /\ a2 # Null
                                     /\ formOf(o[i].kind) # "none"
                                     /\ a2[formOf(o[i].kind)] # Null]]

\* ------------------------------------------------------------------- Init
SeedUserInfo == [trimUserInfo(DraftInfo) EXCEPT !.name = "S"]

Init ==
  /\ \/ /\ rUserInfo = Null /\ rExperience = {} /\ rProjects = {}
     \/ /\ rUserInfo = Null /\ rExperience = {} /\ rProjects = {SeedX}
     \/ /\ rUserInfo = SeedUserInfo
        /\ rExperience = {SeedExperience}
        /\ rProjects = {SeedProject}
  /\ nextId = Cardinality(SeedIds) + 1
  /\ session \in {NoUser, TheUser}
  /\ authQueue = <<session>>
  /\ loginCall = NoCall
  /\ logoutCall = "none"
  /\ authCalls = 0
  /\ userInfo = defaultUserInfo
  /\ experience = <<>>
  /\ projects = <<>>
  /\ user = NoUser
  /\ loading = TRUE
  /\ fetchPc = "userInfo"
  /\ fetchResp = NoResp
  /\ authChecked = FALSE
  /\ consoleLog = {}
  /\ route \in Routes
  /\ loginPage = Null
  /\ admin = Null
  /\ ops = <<>>
  /\ started = 0
  /\ written = <<>>
  /\ committed = [projects |-> rProjects, experience |-> rExperience,
                  userInfo |-> {rUserInfo} \ {Null}, deleted |-> {}]
  /\ unhandled = 0
  /\ redirected = "none"
  \* Asia/Tokyo, Europe/Moscow, UTC, America/Phoenix
  /\ timezoneOffset \in {0 - 540, 0 - 180, 0, 420}
  /\ projectsPage = Null
  /\ declined = 0


\* --------------------------------------------------- initial load (fetchData)
\* The document store answers the read fetchData is waiting for.
Firestore_read(outcome) ==
  /\ fetchPc # "done"
  /\ fetchResp = NoResp
  /\ \E data \in CASE fetchPc = "userInfo" -> {rUserInfo}
                   [] fetchPc = "experience" -> experienceQuery(rExperience)
                   [] fetchPc = "projects" -> projectsQuery(rProjects) :
       fetchResp' = IF outcome = "err" THEN [st |-> "err"]
                    ELSE [st |-> "ok", data |-> data]
  /\ UNCHANGED <<timezoneOffset, remoteVars, authVars, localVars, user, loading, fetchPc,
                 authChecked, consoleLog, route, loginPage, admin, ops,
                 started, written, committed, unhandled, redirected, projectsPage, declined>>

\* mutant: a failed read is logged and the load goes on with the next read
nextRead_goOn(pc, ok) ==
  CASE pc = "userInfo" -> "experience"
    [] pc = "experience" -> "projects"
    [] pc = "projects" -> "done"

\* fetchData: the read that follows the read pc, "done" after the last one
\* and after a read that failed (catch, finally)
nextRead(pc, ok) ==
  IF ~ok THEN "done"
  ELSE CASE pc = "userInfo" -> "experience"
         [] pc = "experience" -> "projects"
         [] pc = "projects" -> "done"

\* mutant: fetchData ends without its finally block
loadingAfter_kept(pc, l) == l

\* fetchData, finally: setLoading(false) once the load has ended at pc "done"
loadingAfter(pc, l) == IF pc = "done" THEN FALSE ELSE l

\* fetchData continues after an await: it stores the answer and issues the
\* next read, or ends (finally: setLoading(false)); a failed read is logged.
fetchData_resume ==
  /\ fetchResp # NoResp
  /\ fetchResp' = NoResp
  /\ LET ok == fetchResp.st = "ok"
         info1 == IF ok /\ fetchPc = "userInfo" /\ fetchResp.data # Null
                  THEN fetchResp.data ELSE userInfo
         shown == ok /\ fetchPc = "userInfo" /\ fetchResp.data # Null
                     /\ admin # Null /\ admin.userInfoForm # Null
         \* UserInfoForm useEffect: a new currentUserInfo resets the draft
         a1 == IF shown THEN [admin EXCEPT !.userInfoForm.formData = info1]
               ELSE admin
         pc1 == nextRead(fetchPc, ok)
     IN  /\ userInfo' = info1
         /\ experience' = IF ok /\ fetchPc = "experience" THEN fetchResp.data
                          ELSE experience
         /\ projects' = IF ok /\ fetchPc = "projects" THEN fetchResp.data
                        ELSE projects
         /\ fetchPc' = pc1
         /\ consoleLog' = IF ok THEN consoleLog
                          ELSE consoleLog \cup {"Error fetching data from Firestore:"}
         /\ Render(loadingAfter(pc1, loading), user, route, a1, loginPage, ops,
                   loginCall, info1)
  /\ UNCHANGED <<timezoneOffset, remoteVars, session, authQueue, logoutCall, authCalls,
                 authChecked, started, written, committed, unhandled, declined>>

\* ------------------------------------------------------------------ identity
\* onAuthStateChanged callback: setUser(currentUser); the callback closed over
\* the loading value of the first render (true), so it always calls
\* setLoading(false).
onAuthStateChanged_callback ==
  /\ authQueue # <<>>
  /\ authQueue' = Tail(authQueue)
  /\ authChecked' = TRUE
  /\ Render(FALSE, Head(authQueue), route, admin, loginPage, ops, loginCall,
            userInfo)
  /\ UNCHANGED <<timezoneOffset, remoteVars, session, logoutCall, authCalls, localVars,
                 fetchVars, consoleLog, started, written, committed, unhandled, declined>>

\* LoginPage.handleLogin up to the await
LoginPage_handleLogin ==
  /\ loginPage # Null
  /\ ~loginPage.isLoggingIn
  /\ loginCall.st = "none"
  /\ authCalls < MaxAuthCalls
  /\ authCalls' = authCalls + 1
  /\ Render(loading, user, route, admin,
            [error |-> "", isLoggingIn |-> TRUE], ops,
            [st |-> "sent", live |-> TRUE], userInfo)
  /\ UNCHANGED <<timezoneOffset, remoteVars, session, authQueue, logoutCall, localVars,
                 fetchVars, authChecked, consoleLog, started, written,
                 committed, unhandled, declined>>

\* the identity provider answers the sign-in: it accepts the credentials and
\* reports the new session to the subscriber, or rejects them
Auth_signIn(outcome) ==
  /\ loginCall.st = "sent"
  /\ loginCall' = [loginCall EXCEPT !.st = outcome]
  /\ session' = IF outcome = "ok" THEN TheUser ELSE session
  /\ authQueue' = IF outcome = "ok" /\ session # TheUser
                  THEN Append(authQueue, TheUser) ELSE authQueue
  /\ UNCHANGED <<timezoneOffset, remoteVars, logoutCall, authCalls, localVars, user, loading,
                 fetchVars, authChecked, consoleLog, route, loginPage, admin,
                 ops, started, written, committed, unhandled, redirected, projectsPage, declined>>

\* LoginPage.handleLogin after the await: navigate('/admin') or setError,
\* then finally setIsLoggingIn(false)
LoginPage_handleLogin_resume ==
  /\ loginCall.st \in {"ok", "err"}
  /\ LET lp1 == IF ~loginCall.live THEN loginPage
                ELSE IF loginCall.st = "ok"
                     THEN [loginPage EXCEPT !.isLoggingIn = FALSE]
                     ELSE [error |-> "check your credentials",
                           isLoggingIn |-> FALSE]
         r1 == IF loginCall.st = "ok" THEN "/admin" ELSE route
         \* leaving /login unmounts the page, also when the gate leads back
         lp2 == IF r1 # route THEN Null ELSE lp1
     IN  Render(loading, user, r1, admin, lp2, ops, NoCall, userInfo)
  /\ UNCHANGED <<timezoneOffset, remoteVars, session, authQueue, logoutCall, authCalls,
                 localVars, fetchVars, authChecked, consoleLog, started,
                 written, committed, unhandled, declined>>

\* Header.handleLogout up to the await (the button is shown while user is set)
Header_handleLogout ==
  /\ routerMounted(loading)
  /\ user # NoUser
  /\ logoutCall = "none"
  /\ authCalls < MaxAuthCalls
  /\ authCalls' = authCalls + 1
  /\ logoutCall' = "sent"
  /\ UNCHANGED <<timezoneOffset, remoteVars, session, authQueue, loginCall, localVars, user,
                 loading, fetchVars, authChecked, consoleLog, route, loginPage,
                 admin, ops, started, written, committed, unhandled,
                 redirected, projectsPage, declined>>

\* the identity provider answers the sign-out
Auth_signOut(outcome) ==
  /\ logoutCall = "sent"
  /\ logoutCall' = outcome
  /\ session' = IF outcome = "ok" THEN NoUser ELSE session
  /\ authQueue' = IF outcome = "ok" /\ session # NoUser
                  THEN Append(authQueue, NoUser) ELSE authQueue
  /\ UNCHANGED <<timezoneOffset, remoteVars, loginCall, authCalls, localVars, user, loading,
                 fetchVars, authChecked, consoleLog, route, loginPage, admin,
                 ops, started, written, committed, unhandled, redirected, projectsPage, declined>>

\* mutant: the handler does not navigate after the sign-out
Header_handleLogout_resume_stay ==
  /\ logoutCall \in {"ok", "err"}
  /\ logoutCall' = "none"
  /\ unhandled' = IF logoutCall = "ok" THEN unhandled ELSE unhandled + 1
  /\ Render(loading, user, route, admin, loginPage, ops, loginCall, userInfo)
  /\ UNCHANGED <<timezoneOffset, remoteVars, session, authQueue, authCalls, localVars,
                 fetchVars, authChecked, consoleLog, started, written,
                 committed, declined>>

\* Header.handleLogout after the await: navigate('/'); a rejected signOut
\* leaves the handler without navigating
Header_handleLogout_resume ==
  /\ logoutCall \in {"ok", "err"}
  /\ logoutCall' = "none"
  /\ unhandled' = IF logoutCall = "ok" THEN unhandled ELSE unhandled + 1
  /\ Render(loading, user, IF logoutCall = "ok" THEN "/" ELSE route, admin,
            loginPage, ops, loginCall, userInfo)
  /\ UNCHANGED <<timezoneOffset, remoteVars, session, authQueue, authCalls, localVars,
                 fetchVars, authChecked, consoleLog, started, written,
                 committed, declined>>

\* -------------------------------------------------------------------- router
\* a header link, or the fragment typed into the address bar
Navigate(r) ==
  /\ r # route
  /\ Render(loading, user, r, admin, loginPage, ops, loginCall, userInfo)
  /\ UNCHANGED <<timezoneOffset, remoteVars, session, authQueue, logoutCall, authCalls,
                 localVars, fetchVars, authChecked, consoleLog, started,
                 written, committed, unhandled, declined>>


\* ------------------------------------------------------------ project gallery
\* a filter button: setActiveFilter(tech)
ProjectsPage_setActiveFilter(tech) ==
  /\ projectsPage # Null
  /\ includes(allTechnologies(projects), tech)
  /\ projectsPage' = [projectsPage EXCEPT !.activeFilter = tech]
  /\ UNCHANGED <<timezoneOffset, remoteVars, authVars, localVars, user, loading, fetchVars,
                 authChecked, consoleLog, route, loginPage, admin, ops,
                 started, written, committed, unhandled, redirected,
                 declined>>

\* ------------------------------------------------------------- admin surface
\* an AdminPage or form handler that only sets component state
AdminSet(a) ==
  /\ admin # Null
  /\ Render(loading, user, route, a, loginPage, ops, loginCall, userInfo)
  /\ UNCHANGED <<timezoneOffset, remoteVars, session, authQueue, logoutCall, authCalls,
                 localVars, fetchVars, authChecked, consoleLog, started,
                 written, committed, unhandled, declined>>

\* a handler that calls a store operation: the remote write is issued
\* before the handler returns
AdminCall(a, kind, arg) ==
  /\ admin # Null
  /\ started < MaxWrites
  /\ started' = started + 1
  /\ Render(loading, user, route, a, loginPage,
            Append(ops, [kind |-> kind, arg |-> arg, status |-> "sent",
                         newId |-> 0, adminLive |-> TRUE,
                         formLive |-> formOf(kind) # "none"]),
            loginCall, userInfo)
  /\ UNCHANGED <<timezoneOffset, remoteVars, session, authQueue, logoutCall, authCalls,
                 localVars, fetchVars, authChecked, consoleLog, written,
                 committed, unhandled, declined>>

\* tab buttons: setActiveTab(tab.key)
AdminPage_setActiveTab(t) ==
  /\ admin # Null
  /\ t # admin.activeTab
  /\ AdminSet([admin EXCEPT !.activeTab = t])

\* "add project" button, shown while the form is hidden
AdminPage_addProject_click ==
  /\ admin # Null
  /\ admin.activeTab = "projects"
  /\ ~admin.isProjectFormVisible
  /\ AdminSet([admin EXCEPT !.editingProject = Null,
                              !.isProjectFormVisible = TRUE])

\* "edit" button of a listed project
AdminPage_editProject_click(p) ==
  /\ admin # Null
  /\ admin.activeTab = "projects"
  /\ p \in SeqToSet(projects)
  /\ AdminSet([admin EXCEPT !.editingProject = p,
                              !.isProjectFormVisible = TRUE])

\* ProjectForm onCancel
ProjectForm_onCancel ==
  /\ admin # Null
  /\ admin.projectForm # Null
  /\ AdminSet([admin EXCEPT !.editingProject = Null,
                              !.isProjectFormVisible = FALSE])

\* ProjectForm.handleChange: a change event of the input called name, which
\* now holds value
ProjectForm_handleChange(name, value) ==
  /\ admin # Null
  /\ admin.projectForm # Null
  /\ name \in ProjectInputs
  /\ value # admin.projectForm.formData[name]
  /\ AdminSet([admin EXCEPT !.projectForm.formData[name] = value])

\* the Add button or Enter in the tag input, which holds currentTech
ProjectForm_handleAddTech(currentTech) ==
  /\ admin # Null
  /\ admin.projectForm # Null
  /\ AdminSet([admin EXCEPT !.projectForm.formData.technologies =
                               handleAddTech(@, currentTech)])

\* the remove button of the tag at indexToRemove
ProjectForm_handleRemoveTech(indexToRemove) ==
  /\ admin # Null
  /\ admin.projectForm # Null
  /\ indexToRemove + 1 \in DOMAIN admin.projectForm.formData.technologies
  /\ AdminSet([admin EXCEPT !.projectForm.formData.technologies =
                               handleRemoveTech(@, indexToRemove)])

\* the required inputs of the project form are filled in
projectFormValid(formData) ==
  /\ formData.title # ""
  /\ formData.shortDescription # ""
  /\ formData.longDescription # ""
  /\ formData.date # <<>>

\* ProjectForm.handleSubmit up to the await, with AdminPage's onSave
ProjectForm_handleSubmit ==
  /\ admin # Null
  /\ admin.projectForm # Null
  /\ ~admin.projectForm.isSaving
  /\ projectFormValid(admin.projectForm.formData)
  /\ LET data == trimProject(admin.projectForm.formData)
         a1 == [admin EXCEPT !.projectForm.isSaving = TRUE]
     IN  IF admin.editingProject # Null
         THEN AdminCall(a1, "updateProject", spread(admin.editingProject, data))
         ELSE AdminCall(a1, "addProject", data)

\* a declined window.confirm: the handler returns without a call
Declined(id) ==
  /\ declined' = id
  /\ UNCHANGED <<timezoneOffset, remoteVars, authVars, localVars, user, loading, fetchVars,
                 authChecked, consoleLog, route, loginPage, admin, ops,
                 started, written, committed, unhandled, redirected,
                 projectsPage>>

\* mutant: deleteProject is called whatever window.confirm returned
AdminPage_deleteProject_click_unasked(p, confirmed) ==
  /\ admin # Null
  /\ admin.activeTab = "projects"
  /\ p \in SeqToSet(projects)
  /\ started < MaxWrites
  /\ started' = started + 1
  /\ declined' = IF confirmed THEN declined ELSE p.id
  /\ Render(loading, user, route, admin, loginPage,
            Append(ops, [kind |-> "deleteProject", arg |-> [id |-> p.id],
                         status |-> "sent", newId |-> 0, adminLive |-> TRUE,
                         formLive |-> FALSE]),
            loginCall, userInfo)
  /\ UNCHANGED <<timezoneOffset, remoteVars, session, authQueue, logoutCall, authCalls,
                 localVars, fetchVars, authChecked, consoleLog, written,
                 committed, unhandled>>

\* "delete" button of a listed project: window.confirm, then deleteProject
AdminPage_deleteProject_click(p, confirmed) ==
  /\ admin # Null
  /\ admin.activeTab = "projects"
  /\ p \in SeqToSet(projects)
  /\ IF confirmed THEN AdminCall(admin, "deleteProject", [id |-> p.id])
     ELSE Declined(p.id)

\* "add experience" button, shown while the form is hidden
AdminPage_addExperience_click ==
  /\ admin # Null
  /\ admin.activeTab = "experience"
  /\ ~admin.isExperienceFormVisible
  /\ AdminSet([admin EXCEPT !.editingExperience = Null,
                              !.isExperienceFormVisible = TRUE])

\* "edit" button of a listed experience entry
AdminPage_editExperience_click(e) ==
  /\ admin # Null
  /\ admin.activeTab = "experience"
  /\ e \in SeqToSet(experience)
  /\ AdminSet([admin EXCEPT !.editingExperience = e,
                              !.isExperienceFormVisible = TRUE])

\* ExperienceForm onCancel
ExperienceForm_onCancel ==
  /\ admin # Null
  /\ admin.experienceForm # Null
  /\ AdminSet([admin EXCEPT !.editingExperience = Null,
                              !.isExperienceFormVisible = FALSE])

\* ExperienceForm.handleChange: a change event of the input called name,
\* which now holds value; the number input (order) is parsed
ExperienceForm_handleChange(name, value) ==
  /\ admin # Null
  /\ admin.experienceForm # Null
  /\ name \in ExperienceInputs
  /\ \E v \in {IF name = "order" THEN parseIntOr0(value) ELSE value} :
       /\ name # "order" => v # admin.experienceForm.formData[name]
       /\ AdminSet([admin EXCEPT !.experienceForm.formData[name] = v])

\* the required inputs of the experience form are filled in
experienceFormValid(formData) ==
  /\ formData.role # ""
  /\ formData.company # ""
  /\ formData.period # ""
  /\ formData.description # ""

\* ExperienceForm.handleSubmit up to the await, with AdminPage's onSave
ExperienceForm_handleSubmit ==
  /\ admin # Null
  /\ admin.experienceForm # Null
  /\ ~admin.experienceForm.isSaving
  /\ experienceFormValid(admin.experienceForm.formData)
  /\ LET data == admin.experienceForm.formData
         a1 == [admin EXCEPT !.experienceForm.isSaving = TRUE]
     IN  IF admin.editingExperience # Null
         THEN AdminCall(a1, "updateExperience",
                        spread(admin.editingExperience, data))
         ELSE AdminCall(a1, "addExperience", data)

\* "delete" button of a listed experience entry
AdminPage_deleteExperience_click(e, confirmed) ==
  /\ admin # Null
  /\ admin.activeTab = "experience"
  /\ e \in SeqToSet(experience)
  /\ IF confirmed THEN AdminCall(admin, "deleteExperience", [id |-> e.id])
     ELSE Declined(e.id)

\* UserInfoForm.handleChange: a change event of the input called name
UserInfoForm_handleChange(name, value) ==
  /\ admin # Null
  /\ admin.userInfoForm # Null
  /\ name \in UserInfoInputs
  /\ value # admin.userInfoForm.formData[name]
  /\ AdminSet([admin EXCEPT !.userInfoForm.formData[name] = value])

\* UserInfoForm.handleContactChange: a change event of a contact input
UserInfoForm_handleContactChange(name, value) ==
  /\ admin # Null
  /\ admin.userInfoForm # Null
  /\ name \in ContactInputs
  /\ value # admin.userInfoForm.formData.contacts[name]
  /\ AdminSet([admin EXCEPT !.userInfoForm.formData.contacts[name] = value])

\* the Add button or Enter in the skill input, which holds newSkill
UserInfoForm_handleAddSkill(newSkill) ==
  /\ admin # Null
  /\ admin.userInfoForm # Null
  /\ AdminSet([admin EXCEPT !.userInfoForm.formData.skills =
                               handleAddSkill(@, newSkill)])

\* the remove button of the skill at indexToRemove
UserInfoForm_handleRemoveSkill(indexToRemove) ==
  /\ admin # Null
  /\ admin.userInfoForm # Null
  /\ indexToRemove + 1 \in DOMAIN admin.userInfoForm.formData.skills
  /\ AdminSet([admin EXCEPT !.userInfoForm.formData.skills =
                               handleRemoveSkill(@, indexToRemove)])

\* a valid e-mail address of an input of type email: atext characters, "@",
\* then labels of letters, digits and inner hyphens separated by dots
validEmail(s) ==
  LET LettersDigits ==
        {"a", "b", "c", "d", "e", "f", "g", "h", "i", "j", "k", "l", "m",
         "n", "o", "p", "q", "r", "s", "t", "u", "v", "w", "x", "y", "z",
         "A", "B", "C", "D", "E", "F", "G", "H", "I", "J", "K", "L", "M",
         "N", "O", "P", "Q", "R", "S", "T", "U", "V", "W", "X", "Y", "Z",
         "0", "1", "2", "3", "4", "5", "6", "7", "8", "9"}
      Atext ==
        LettersDigits \cup
        {".", "!", "#", "$", "%", "&", "'", "*", "+", "/", "=", "?", "^",
         "_", "U+0060", "{", "|", "}", "~", "-"}
  IN
  \E k \in DOMAIN s :
    /\ s[k] = "@"
    /\ k > 1
    /\ \A i \in 1..(k - 1) : s[i] \in Atext
    /\ k < Len(s)
    /\ \A i \in (k + 1)..Len(s) : s[i] \in LettersDigits \cup {"-", "."}
    /\ \A i \in (k + 1)..Len(s) :
         s[i] \in {"-", "."} =>
           /\ i > k + 1 /\ i < Len(s)
           /\ s[i] = "." => s[i - 1] \in LettersDigits
                            /\ s[i + 1] \in LettersDigits
    \* a label has at most 63 characters
    /\ \A i \in (k + 1)..(Len(s) - 63) : \E j \in i..(i + 63) : s[j] = "."

\* the constraints of the profile form's inputs: the required ones are
\* filled in, the e-mail input is empty or holds a valid address
userInfoFormValid(formData) ==
  /\ formData.name # ""
  /\ formData.specialization # ""
  /\ formData.city # ""
  /\ formData.bio # ""
  /\ formData.contacts.email = <<>> \/ validEmail(formData.contacts.email)

\* UserInfoForm.handleSubmit up to the await; onSave is updateUserInfo
UserInfoForm_handleSubmit ==
  /\ admin # Null
  /\ admin.userInfoForm # Null
  /\ ~admin.userInfoForm.isSaving
  /\ userInfoFormValid(admin.userInfoForm.formData)
  /\ AdminCall([admin EXCEPT !.userInfoForm.isSaving = TRUE],
               "updateUserInfo", trimUserInfo(admin.userInfoForm.formData))


\* ------------------------------------------------------------- store writes
\* The document store answers the write of operation i: it commits it, or
\* rejects it (updateDoc on a missing document is always rejected).
Firestore_write(i, outcome) ==
  /\ i \in DOMAIN ops
  /\ ops[i].status = "sent"
  /\ LET op == ops[i]
         ok == outcome = "ok"
     IN  /\ ok /\ op.kind = "updateProject" => canUpdateDoc(rProjects, op.arg.id)
         /\ ok /\ op.kind = "updateExperience"
               => canUpdateDoc(rExperience, op.arg.id)
         /\ rProjects' =
              IF ~ok THEN rProjects
              ELSE CASE op.kind = "addProject" -> addDoc(rProjects, op.arg, nextId)
                     [] op.kind = "updateProject" ->
                          updateDoc(rProjects, op.arg.id, withoutId(op.arg))
                     [] op.kind = "deleteProject" -> deleteDoc(rProjects, op.arg.id)
                     [] OTHER -> rProjects
         /\ rExperience' =
              IF ~ok THEN rExperience
              ELSE CASE op.kind = "addExperience" ->
                          addDoc(rExperience, op.arg, nextId)
                     [] op.kind = "updateExperience" ->
                          updateDoc(rExperience, op.arg.id, withoutId(op.arg))
                     [] op.kind = "deleteExperience" ->
                          deleteDoc(rExperience, op.arg.id)
                     [] OTHER -> rExperience
         /\ rUserInfo' = IF ok /\ op.kind = "updateUserInfo"
                         THEN setDocMerge(rUserInfo, op.arg) ELSE rUserInfo
         /\ nextId' = IF ok /\ op.kind \in AddKinds THEN nextId + 1 ELSE nextId
         /\ committed' =
              [projects |-> committed.projects \cup rProjects',
               experience |-> committed.experience \cup rExperience',
               userInfo |-> committed.userInfo \cup ({rUserInfo'} \ {Null}),
               deleted |-> committed.deleted \cup
                  (IF ok /\ op.kind \in DeleteKinds THEN {op.arg.id} ELSE {})]
         /\ ops' = [ops EXCEPT ![i].status = outcome,
                               ![i].newId = IF ok /\ op.kind \in AddKinds
                                            THEN nextId ELSE 0]
  /\ UNCHANGED <<timezoneOffset, authVars, localVars, user, loading, fetchVars, authChecked,
                 consoleLog, route, loginPage, admin, started, written,
                 unhandled, redirected, projectsPage, declined>>

\* the local view after the store operation op resumed from a resolved await
storeAfter(op, local) ==
  [userInfo |-> IF op.kind = "updateUserInfo" THEN op.arg ELSE local.userInfo,
   experience |->
     CASE op.kind = "addExperience" ->
            addExperience(local.experience, op.arg, op.newId)
       [] op.kind = "updateExperience" -> updateExperience(local.experience, op.arg)
       [] op.kind = "deleteExperience" ->
            deleteExperience(local.experience, op.arg.id)
       [] OTHER -> local.experience,
   projects |->
     CASE op.kind = "addProject" -> addProject(local.projects, op.arg, op.newId)
       [] op.kind = "updateProject" -> updateProject(local.projects, op.arg)
       [] op.kind = "deleteProject" -> deleteProject(local.projects, op.arg.id)
       [] OTHER -> local.projects]

\* mutant: the local update runs whether or not the await resolved
storeAfterRejected_applied(op, local) == storeAfter(op, local)

\* the local view after the await of op rejected: the store operations have
\* no catch, nothing after the await runs
storeAfterRejected(op, local) == local

\* the caller's continuation after the store operation resolved: AdminPage's
\* onSave hides the form, the form's handleSubmit clears isSaving, and the
\* profile form's effect copies the new userInfo into its draft
callerAfter(op, a, info) ==
  IF a = Null THEN a
  ELSE CASE formOf(op.kind) = "projectForm" /\ op.adminLive ->
              [a EXCEPT !.isProjectFormVisible = FALSE, !.editingProject = Null]
         [] formOf(op.kind) = "experienceForm" /\ op.adminLive ->
              [a EXCEPT !.isExperienceFormVisible = FALSE,
                        !.editingExperience = Null]
         [] formOf(op.kind) = "userInfoForm" /\ a.userInfoForm # Null ->
              [a EXCEPT !.userInfoForm =
                 [formData |-> info,
                  isSaving |-> IF op.formLive THEN FALSE ELSE @.isSaving]]
         [] OTHER -> a

\* mutant: the store operation catches the error, its caller goes on
callerAfterRejected_swallowed(op, a, info) == callerAfter(op, a, info)

\* the caller's continuation after the store operation rejected: the
\* rejection passes through onSave and handleSubmit, neither catches it
callerAfterRejected(op, a, info) == a

\* what a completed store operation left of the entity it wrote (key 0 is
\* the profile, the other keys are document ids)
writtenAfter(op, w) ==
  CASE op.kind \in AddKinds -> (op.newId :> withId(op.arg, op.newId)) @@ w
    [] op.kind \in UpdateKinds -> (op.arg.id :> op.arg) @@ w
    [] op.kind \in DeleteKinds -> (op.arg.id :> Null) @@ w
    [] op.kind = "updateUserInfo" -> (0 :> op.arg) @@ w

\* the operations in flight without operation i
without(o, i) == [j \in 1..(Len(o) - 1) |-> IF j < i THEN o[j] ELSE o[j + 1]]

\* The page resumes operation i after its await settled.
Write_resume(i) ==
  /\ i \in DOMAIN ops
  /\ ops[i].status \in {"ok", "err"}
  /\ LET op == ops[i]
         ok == op.status = "ok"
         local == [userInfo |-> userInfo, experience |-> experience,
                   projects |-> projects]
         local1 == IF ok THEN storeAfter(op, local)
                   ELSE storeAfterRejected(op, local)
         a1 == IF ok THEN callerAfter(op, admin, local1.userInfo)
               ELSE callerAfterRejected(op, admin, local1.userInfo)
     IN  /\ userInfo' = local1.userInfo
         /\ experience' = local1.experience
         /\ projects' = local1.projects
         /\ written' = IF ok THEN writtenAfter(op, written) ELSE written
         /\ unhandled' = IF ok THEN unhandled ELSE unhandled + 1
         /\ Render(loading, user, route, a1, loginPage, without(ops, i),
                   loginCall, local1.userInfo)
  /\ UNCHANGED <<timezoneOffset, remoteVars, session, authQueue, logoutCall, authCalls,
                 fetchVars, authChecked, consoleLog, started, committed, declined>>

\* ------------------------------------------------------------ specification
\* initial load
FetchActs ==
  \/ \E outcome \in {"ok", "err"} : Firestore_read(outcome)
  \/ fetchData_resume

\* sign-in and sign-out
AuthActs ==
  \/ LoginPage_handleLogin
  \/ \E outcome \in {"ok", "err"} : Auth_signIn(outcome)
  \/ LoginPage_handleLogin_resume
  \/ Header_handleLogout
  \/ \E outcome \in {"ok", "err"} : Auth_signOut(outcome)
  \/ Header_handleLogout_resume

NavActs == \E r \in Routes : Navigate(r)

TabActs == \E t \in Tabs : AdminPage_setActiveTab(t)

\* projects tab of the admin surface
ProjectActs ==
  \/ AdminPage_addProject_click
  \/ \E p \in SeqToSet(projects) : AdminPage_editProject_click(p)
  \/ ProjectForm_onCancel
  \/ ProjectForm_handleSubmit
  \/ \E p \in SeqToSet(projects) : AdminPage_deleteProject_click(p, TRUE)

\* typing into the project form: the change events events
ProjectEdits(events) ==
  \E ev \in events : ProjectForm_handleChange(ev[1], ev[2])

\* experience tab of the admin surface
ExperienceActs ==
  \/ AdminPage_addExperience_click
  \/ \E e \in SeqToSet(experience) : AdminPage_editExperience_click(e)
  \/ ExperienceForm_onCancel
  \/ ExperienceForm_handleSubmit
  \/ \E e \in SeqToSet(experience) : AdminPage_deleteExperience_click(e, TRUE)

\* typing into the experience form
ExperienceEdits(events) ==
  \E ev \in events : ExperienceForm_handleChange(ev[1], ev[2])

\* profile tab of the admin surface
InfoActs == UserInfoForm_handleSubmit

\* typing into the profile form
UserInfoEdits(events) ==
  \E ev \in events : UserInfoForm_handleChange(ev[1], ev[2])

\* typing into the contact inputs of the profile form
ContactEdits(events) ==
  \E ev \in events : UserInfoForm_handleContactChange(ev[1], ev[2])

\* the tag list of the project form
TagActs ==
  \/ \E n \in TypedNames : ProjectForm_handleAddTech(n)
  \/ \E i \in 0..(Cardinality(TypedNames) - 1) : ProjectForm_handleRemoveTech(i)

\* the skill list of the profile form
SkillActs ==
  \/ \E n \in TypedNames : UserInfoForm_handleAddSkill(n)
  \/ \E i \in 0..(Cardinality(TypedNames) - 1) : UserInfoForm_handleRemoveSkill(i)

\* the delete buttons with either answer to the confirmation prompt
DeleteActs ==
  \/ \E q \in SeqToSet(projects), c \in BOOLEAN :
       AdminPage_deleteProject_click(q, c)
  \/ \E e \in SeqToSet(experience), c \in BOOLEAN :
       AdminPage_deleteExperience_click(e, c)

\* the filter buttons of the gallery
GalleryActs ==
  \E tech \in SeqToSet(allTechnologies(projects)) :
    ProjectsPage_setActiveFilter(tech)

\* the document store answers a write, the page resumes the operation
WriteActs ==
  \/ \E i \in DOMAIN ops, outcome \in {"ok", "err"} : Firestore_write(i, outcome)
  \/ \E i \in DOMAIN ops : Write_resume(i)

Next ==
  \/ FetchActs
  \/ onAuthStateChanged_callback
  \/ AuthActs
  \/ NavActs
  \/ TabActs
  \/ ProjectActs
  \/ ProjectEdits(UNION {typedInto(d, ProjectInputs) : d \in ProjectDrafts}
                  \cup {<<"date", FarDate>>,
                        \* the last day a Date can hold
                        <<"date", <<"2", "7", "5", "7", "6", "0", "-", "0",
                                    "9", "-", "1", "3">>>>})
  \/ ExperienceActs
  \/ ExperienceEdits(
       UNION {typedInto(d, ExperienceInputs \ {"order"}) : d \in ExperienceDrafts}
       \cup {<<"order", <<"3">>>>, <<"order", <<>>>>,
             \* more digits than a double holds exactly
             <<"order", <<"9", "0", "0", "7", "1", "9", "9", "2", "5", "4",
                          "7", "4", "0", "9", "9", "3">>>>})
  \/ InfoActs
  \/ UserInfoEdits(UNION {typedInto(d, UserInfoInputs) : d \in UserInfoDrafts})
  \/ ContactEdits(
       UNION {typedInto(d.contacts, ContactInputs) : d \in UserInfoDrafts}
       \cup {<<"email", <<"a", "@">>>>, <<"email", <<"a", "@", "b">>>>})
  \/ TagActs
  \/ SkillActs
  \/ GalleryActs
  \/ DeleteActs
  \/ WriteActs

\* the whole application: every change event the drafts are made of, a date
\* of a far year, a number input that holds digits or nothing (cleared, or
\* while a lone sign is typed), an e-mail address as far as typed
Spec == Init /\ [][Next]_vars


\* The admin opens the page on the admin route with a session the provider
\* kept, and the collections hold documents.
InitAdmin ==
  /\ Init
  /\ session = TheUser
  /\ route = "/admin"
  /\ rProjects = {SeedProject}

\* the same, in a browser whose time zone is UTC
InitAdminUTC == InitAdmin /\ timezoneOffset = 0

\* the store under the admin surface: an initial load whose reads succeed,
\* the three tabs with their add, edit, delete and submit buttons, writes
\* that succeed or fail. The admin goes from the projects tab on to the
\* other two and types the required inputs of the project and the
\* experience form (a new title or role, the other texts as the stored entry
\* has them) and the name of the profile
NextStore ==
  \/ Firestore_read("ok")
  \/ fetchData_resume
  \/ onAuthStateChanged_callback
  \/ AdminPage_setActiveTab("experience")
  \/ AdminPage_setActiveTab("info")
  \/ AdminPage_addProject_click
  \/ \E q \in SeqToSet(projects) : AdminPage_editProject_click(q)
  \/ ProjectEdits(typedInto(DraftX, {"title"}) \cup
                  typedInto(DraftY, {"shortDescription", "longDescription"}))
  \/ ProjectForm_handleSubmit
  \/ \E q \in SeqToSet(projects) : AdminPage_deleteProject_click(q, TRUE)
  \/ AdminPage_addExperience_click
  \/ \E e \in SeqToSet(experience) : AdminPage_editExperience_click(e)
  \/ ExperienceEdits(typedInto(DraftB, {"role"}) \cup
                     typedInto(DraftA, {"company", "period", "description"}))
  \/ ExperienceForm_handleSubmit
  \/ \E e \in SeqToSet(experience) : AdminPage_deleteExperience_click(e, TRUE)
  \/ UserInfoEdits(typedInto(DraftInfo, {"name"}))
  \/ UserInfoForm_handleSubmit
  \/ WriteActs

SpecStore == InitAdminUTC /\ [][NextStore]_vars

\* the experience tab alone, with sort orders typed into the form: digits
\* (more of them than a double holds exactly), or nothing when the number
\* input is cleared
NextExperience ==
  \/ Firestore_read("ok")
  \/ fetchData_resume
  \/ onAuthStateChanged_callback
  \/ AdminPage_setActiveTab("experience")
  \/ AdminPage_addExperience_click
  \/ \E e \in SeqToSet(experience) : AdminPage_editExperience_click(e)
  \/ ExperienceEdits(typedInto(DraftB, {"role"}) \cup
                     typedInto(DraftA, {"company", "period", "description"})
                     \cup {<<"order", <<>>>>,
                           <<"order", <<"9", "0", "0", "7", "1", "9", "9",
                                        "2", "5", "4", "7", "4", "0", "9",
                                        "9", "3">>>>})
  \/ ExperienceForm_handleSubmit
  \/ \E e \in SeqToSet(experience) : AdminPage_deleteExperience_click(e, TRUE)
  \/ WriteActs

SpecExperience == InitAdminUTC /\ [][NextExperience]_vars

\* the projects tab alone, with a date of a far year typed into the form
NextProjects ==
  \/ FetchActs
  \/ onAuthStateChanged_callback
  \/ ProjectActs
  \/ ProjectEdits(typedInto(DraftX, {"title"}) \cup
                  typedInto(DraftY, {"shortDescription", "longDescription"})
                  \cup {<<"date", FarDate>>})
  \/ WriteActs

\* the admin's page in a time zone ahead of UTC and in one behind it
InitAdminZones == InitAdmin /\ timezoneOffset \in {0 - 540, 420}

SpecProjects == InitAdminZones /\ [][NextProjects]_vars

\* loading, identity and routing, without the admin's edits
NextGate ==
  \/ FetchActs
  \/ onAuthStateChanged_callback
  \/ AuthActs
  \/ NavActs

SpecGate == Init /\ [][NextGate]_vars

\* identity, routing and saving the profile, on an empty store
InitAccess == Init /\ rProjects = {} /\ timezoneOffset = 0

NextAccess ==
  \/ FetchActs
  \/ onAuthStateChanged_callback
  \/ AuthActs
  \/ NavActs
  \/ AdminPage_setActiveTab("info")
  \/ UserInfoForm_handleSubmit
  \/ WriteActs

SpecAccess == InitAccess /\ [][NextAccess]_vars

\* ------------------------------------------------------------------- claims
\* operations in flight, without the flags that follow the components
core(o) ==
  [i \in DOMAIN o |-> [kind |-> o[i].kind, arg |-> o[i].arg,
                       status |-> o[i].status, newId |-> o[i].newId]]

\* this step resumes operation i after its await settled
ResumedStep(i) ==
  /\ ops[i].status \in {"ok", "err"}
  /\ core(ops') = core(without(ops, i))

\* this step hands a fetched answer to fetchData
FetchArrives == fetchResp # NoResp /\ fetchResp' = NoResp

\* C1: a store operation changes the local view only when it resumes from a
\* remote write that succeeded; the step that resumes a failed write leaves
\* projects, experience and userInfo as they were.
C1_LocalOnlyAfterSuccess ==
  [][/\ \A i \in DOMAIN ops :
          ResumedStep(i) /\ ops[i].status = "err" => UNCHANGED localVars
     /\ localVars' # localVars =>
          \/ FetchArrives
          \/ \E i \in DOMAIN ops : ResumedStep(i) /\ ops[i].status = "ok"]_vars

\* a write was rejected and resumed while the local view holds loaded data
C1_Witness ==
  /\ unhandled > 0
  /\ ops = <<>>
  /\ projects # <<>>
  /\ userInfo # defaultUserInfo

\* every local entry and the local profile is a version the store has held
LocalIsCommitted ==
  /\ SeqToSet(projects) \subseteq committed.projects
  /\ SeqToSet(experience) \subseteq committed.experience
  /\ userInfo = defaultUserInfo \/ userInfo \in committed.userInfo

\* an entry leaves a local list only when fetched data replaces the list or
\* the store has committed the delete of that entry
RemovalIsCommitted ==
  \A id \in (Ids(projects) \ Ids(projects')) \cup
            (Ids(experience) \ Ids(experience')) :
    FetchArrives \/ id \in committed.deleted

\* C2: the local view is never ahead of the persisted state: whatever the
\* local lists and profile hold has been committed to the document store, and
\* no entry is removed locally before its remote delete is committed.
C2_NeverAhead == []LocalIsCommitted /\ [][RemovalIsCommitted]_vars

\* a completed add is shown locally while the initial fetch is still running
C2_Witness ==
  /\ fetchPc # "done"
  /\ \E k \in DOMAIN written :
       /\ k \notin SeedIds
       /\ written[k] # Null
       /\ k \in Ids(projects) \cup Ids(experience)

\* what the local view holds for entity key k
viewOf(k) ==
  IF k = 0 THEN userInfo
  ELSE LET both == SeqToSet(projects) \cup SeqToSet(experience)
       IN  IF \E e \in both : e.id = k THEN CHOOSE e \in both : e.id = k
           ELSE Null

\* C3: after a write completed, the local view keeps what that write left
\* of its entity (the added or updated values, or its absence) until another
\* write to the same entity completes, whatever the initial fetch delivers.
C3_WrittenStays == \A k \in DOMAIN written : viewOf(k) = written[k]

\* C4: loading is false only when the initial fetch has returned and the
\* first identity notification has been delivered.
C4_LoadingUntilBoth == ~loading => fetchPc = "done" /\ authChecked

\* C5: the admin surface is rendered only for a signed-in user, an admin
\* route without a user ends on the login route, and the gate never
\* redirects to login while the identity provider holds a session.
C5_AdminGate ==
  /\ admin # Null => user # NoUser
  /\ routerMounted(loading) /\ user = NoUser => route # "/admin"
  /\ redirected # TheUser

\* C6: every store write is started from the rendered admin surface in a
\* state where the store's user is not null.
C6_WritesNeedUser ==
  [][started' > started => user # NoUser /\ admin # Null]_vars

\* a write is in flight that was started after a sign-in or sign-out call
C6_Witness == ops # <<>> /\ authCalls > 0

\* C7: the local experience list is in non-increasing sort order.
C7_ExperienceSorted ==
  \A i, j \in DOMAIN experience :
    i < j => ~numLess(experience[i].order, experience[j].order)

\* the load is over, a write completed, two different orders are listed
C7_Witness ==
  /\ fetchPc = "done"
  /\ DOMAIN written # {}
  /\ Len(experience) >= 2
  /\ numLess(experience[2].order, experience[1].order)

\* C8: once the initial load is over, the local project list is in
\* non-increasing date order.
C8_ProjectsSorted ==
  fetchPc = "done" =>
    \A i, j \in DOMAIN projects :
      i < j => dayNumber(projects[i].date) >= dayNumber(projects[j].date)

\* C9: at most one remote write is in flight at any time.
C9_OneWriteInFlight ==
  Cardinality({i \in DOMAIN ops : ops[i].status = "sent"}) <= 1

\* C10 as claimed: a failed write is logged by the store operation and not
\* passed on to its caller.
C10_FailureSwallowed ==
  [][\A i \in DOMAIN ops :
       ResumedStep(i) /\ ops[i].status = "err" =>
         consoleLog' # consoleLog /\ unhandled' = unhandled]_vars

\* C10 amended: a failed write is passed on as a rejection no handler
\* catches; the store logs nothing, and no page state changes, so no error is
\* shown and the submitting form stays as it was.
C10_FailurePropagates ==
  [][\A i \in DOMAIN ops :
       ResumedStep(i) /\ ops[i].status = "err" =>
         /\ unhandled' = unhandled + 1
         /\ consoleLog' = consoleLog
         /\ admin' = admin
         /\ loginPage' = loginPage]_vars

\* a rejected save left the project form open and saving
C10_Witness ==
  /\ unhandled > 0
  /\ ops = <<>>
  /\ admin # Null
  /\ admin.projectForm # Null
  /\ admin.projectForm.isSaving

\* the tag and skill lists of the drafts, without writes
NextDrafts ==
  \/ FetchActs
  \/ onAuthStateChanged_callback
  \/ TabActs
  \/ AdminPage_addProject_click
  \/ \E p \in SeqToSet(projects) : AdminPage_editProject_click(p)
  \/ ProjectForm_onCancel
  \/ TagActs
  \/ SkillActs

SpecDrafts == InitAdminUTC /\ [][NextDrafts]_vars

\* no element occurs twice in the sequence
NoDup(s) == \A i, j \in DOMAIN s : s[i] = s[j] => i = j

\* the names of a skill list
skillNames(skills) == [i \in DOMAIN skills |-> skills[i].name]

\* the name in lower case (the letters the typed names use)
lower(s) ==
  [i \in DOMAIN s |-> CASE s[i] = "G" -> "g" [] s[i] = "R" -> "r"
                        [] OTHER -> s[i]]

\* adding typed to the names before gave the names after: a name already
\* listed changes nothing, a name listed only in another letter case is
\* appended
AddedAsClaimed(before, typed, after) ==
  IF includes(before, trim(typed)) THEN after = before
  ELSE (\E i \in DOMAIN before : lower(before[i]) = lower(trim(typed)))
         => after = Append(before, trim(typed))

\* C11: in every draft the forms can reach, adding a tag or a skill whose
\* trimmed name is already listed (same letter case) leaves the list as it
\* is, a name that differs in letter case only is appended, and no draft
\* list holds a name twice.
C11_AddDeduplicates ==
  /\ admin # Null /\ admin.projectForm # Null =>
       LET t == admin.projectForm.formData.technologies
       IN  /\ NoDup(t)
           /\ \A n \in TypedNames : AddedAsClaimed(t, n, handleAddTech(t, n))
  /\ admin # Null /\ admin.userInfoForm # Null =>
       LET k == admin.userInfoForm.formData.skills
       IN  /\ NoDup(skillNames(k))
           /\ \A n \in TypedNames :
                AddedAsClaimed(skillNames(k), n,
                               skillNames(handleAddSkill(k, n)))

\* a draft lists the same name in two letter cases and a third name
C11_Witness ==
  /\ admin # Null
  /\ admin.projectForm # Null
  /\ {Go, <<"g", "o">>, Rust} \subseteq
       SeqToSet(admin.projectForm.formData.technologies)

\* the URL inputs of a stored project and of the profile are edited and
\* saved: URLs typed or pasted with white space around them (an input of
\* type text holds no line break, the browser removes it from what is typed
\* or pasted)
NextUrls ==
  \/ Firestore_read("ok")
  \/ fetchData_resume
  \/ onAuthStateChanged_callback
  \/ AdminPage_setActiveTab("info")
  \/ \E q \in SeqToSet(projects) : AdminPage_editProject_click(q)
  \/ ProjectEdits({<<"imageUrl", UrlPadded>>,
                   <<"githubUrl", <<"U+00A0", "v", "\f">>>>,
                   <<"liveUrl", <<" ", "\t">>>>})
  \/ ProjectForm_handleSubmit
  \/ UserInfoEdits({<<"avatarUrl", UrlPadded>>, <<"resumeUrl", <<"\t", "v">>>>})
  \/ ContactEdits({<<"telegram", UrlPadded>>,
                   <<"linkedin", <<"u", "U+3000">>>>,
                   <<"github", <<"U+FEFF", "v">>>>})
  \/ UserInfoForm_handleSubmit
  \/ WriteActs

SpecUrls == InitAdminUTC /\ [][NextUrls]_vars

\* the string neither starts nor ends with white space
NoPad(s) == s = <<>> \/ (s[1] \notin WS /\ s[Len(s)] \notin WS)

\* the string without its white space
StripWS(s) == SelectSeq(s, LAMBDA c : c \notin WS)

ProjectUrlFields == {"imageUrl", "githubUrl", "liveUrl"}
InfoUrlFields == {"avatarUrl", "resumeUrl"}

\* the URL fields of a project or of a profile carry no padding
ProjectUrlsTrimmed(d) == \A f \in ProjectUrlFields : NoPad(d[f])
InfoUrlsTrimmed(d) ==
  /\ \A f \in InfoUrlFields : NoPad(d[f])
  /\ \A f \in DOMAIN d.contacts : NoPad(d.contacts[f])

\* what is on its way to the store and what the store holds is trimmed
SentAndStoredTrimmed ==
  /\ \A i \in DOMAIN ops :
       /\ formOf(ops[i].kind) = "projectForm" => ProjectUrlsTrimmed(ops[i].arg)
       /\ formOf(ops[i].kind) = "userInfoForm" => InfoUrlsTrimmed(ops[i].arg)
  /\ \A d \in rProjects : ProjectUrlsTrimmed(d)
  /\ rUserInfo # Null => InfoUrlsTrimmed(rUserInfo)

\* the data a submit step passes to the store is the draft: a URL field
\* keeps its characters other than white space, any other field is the
\* drafted value
PassedAsDrafted(arg, draft, urlFields) ==
  \A f \in DOMAIN draft :
    IF f \in urlFields THEN StripWS(arg[f]) = StripWS(draft[f])
    ELSE IF f = "contacts"
    THEN \A g \in DOMAIN draft[f] : StripWS(arg[f][g]) = StripWS(draft[f][g])
    ELSE arg[f] = draft[f]

SubmitPassesDraft ==
  started' = started + 1 =>
    LET op == ops'[Len(ops')]
    IN  CASE formOf(op.kind) = "projectForm" ->
               PassedAsDrafted(op.arg, admin.projectForm.formData,
                               ProjectUrlFields)
          [] formOf(op.kind) = "experienceForm" ->
               PassedAsDrafted(op.arg, admin.experienceForm.formData, {})
          [] formOf(op.kind) = "userInfoForm" ->
               PassedAsDrafted(op.arg, admin.userInfoForm.formData,
                               InfoUrlFields)
          [] OTHER -> TRUE

\* C12: the data every form submission passes to the store, and what the
\* store then holds, has no white space around imageUrl, githubUrl and
\* liveUrl of a project and around avatarUrl, resumeUrl and the four contact
\* fields of the profile; every other field is passed as drafted.
C12_UrlsTrimmed == []SentAndStoredTrimmed /\ [][SubmitPassesDraft]_vars

\* the store holds the project and the profile whose URLs were drafted with
\* a no-break space, a form feed, blanks and tabs, a wide space or a byte
\* order mark around them
C12_Witness ==
  /\ started = MaxWrites
  /\ ops = <<>>
  /\ \E d \in rProjects :
       d.imageUrl = Url /\ d.githubUrl = <<"v">> /\ d.liveUrl = <<>>
  /\ rUserInfo # Null
  /\ rUserInfo.contacts.linkedin = Url
  /\ rUserInfo.contacts.github = <<"v">>
  /\ rUserInfo.resumeUrl = <<"v">>

\* The admin opens the page with a kept session on a store that holds
\* project X, adds project Y and looks at the gallery.
InitGallery ==
  Init /\ session = TheUser /\ rProjects = {SeedX} /\ timezoneOffset = 0

NextGallery ==
  \/ FetchActs
  \/ onAuthStateChanged_callback
  \/ NavActs
  \/ AdminPage_addProject_click
  \/ ProjectEdits(typedInto(DraftY, {"title", "shortDescription",
                                     "longDescription", "date"}))
  \/ ProjectForm_handleAddTech(Rust)
  \/ ProjectForm_handleSubmit
  \/ WriteActs
  \/ GalleryActs

SpecGallery == InitGallery /\ [][NextGallery]_vars

\* a is b with some elements left out, the others in the same order
RECURSIVE IsSubSeq(_, _)
IsSubSeq(a, b) ==
  IF a = <<>> THEN TRUE
  ELSE IF b = <<>> THEN FALSE
  ELSE IF a[1] = b[1] THEN IsSubSeq(Tail(a), Tail(b))
  ELSE IsSubSeq(a, Tail(b))

\* the gallery shows project q under the filter value f
Shows(q, f) == f = All \/ \E i \in DOMAIN q.technologies : q.technologies[i] = f

titles(ps) == [i \in DOMAIN ps |-> ps[i].title]

\* C13: for the active filter value the gallery shows exactly the projects
\* whose technologies contain it (every project for "All"), in the order
\* of the store's list; and a list that holds project X (2024-01-01, Go)
\* and project Y (2024-06-01, Rust) is [Y, X], of which the filter Go
\* shows [X].
C13_GalleryFilter ==
  /\ projectsPage # Null =>
       LET f == projectsPage.activeFilter
           shown == filteredProjects(projects, f)
       IN  /\ IsSubSeq(shown, projects)
           /\ \A i \in DOMAIN shown : Shows(shown[i], f)
           /\ Len(shown) =
                Cardinality({i \in DOMAIN projects : Shows(projects[i], f)})
  /\ Len(projects) = 2 /\ SeqToSet(titles(projects)) = {"X", "Y"} =>
       /\ titles(projects) = <<"Y", "X">>
       /\ titles(filteredProjects(projects, Go)) = <<"X">>

\* Y was added to the stored X, the gallery is open with the filter Go
C13_Witness ==
  /\ projectsPage # Null
  /\ projectsPage.activeFilter = Go
  /\ \E y \in DOMAIN written :
       y > SeedX.id /\ written[y] # Null /\ written[y].title = "Y"
  /\ titles(projects) = <<"Y", "X">>
  /\ titles(filteredProjects(projects, projectsPage.activeFilter)) = <<"X">>

\* the delete buttons of the admin lists, confirmed or declined
NextDeletes ==
  \/ FetchActs
  \/ onAuthStateChanged_callback
  \/ TabActs
  \/ DeleteActs
  \/ WriteActs

SpecDeletes == InitAdminUTC /\ [][NextDeletes]_vars

\* C14: a step in which a delete prompt is declined starts no store
\* operation and changes neither the remote documents nor the local view
\* nor any other state of the store and the pages; the entry is still
\* listed.
C14_DeclineChangesNothing ==
  [][declined' # declined =>
       /\ UNCHANGED <<remoteVars, localVars, ops, started, written, committed,
                      user, loading, fetchVars, consoleLog, admin>>
       /\ declined' \in Ids(projects') \cup Ids(experience')]_vars

\* a prompt was declined for an entry the store and the local list hold
C14_Witness ==
  /\ declined # 0
  /\ \E d \in rProjects \cup rExperience : d.id = declined
  /\ declined \in Ids(projects) \cup Ids(experience)

\* this step resumes LoginPage.handleLogin after its await settled
LoginResumed == loginCall.st \in {"ok", "err"} /\ loginCall'.st = "none"

\* C15, the failed sign-in: when handleLogin resumes from a failed sign-in
\* it does not navigate; the login page that started the call shows the
\* credentials message with its in-progress flag false; if that page was
\* left meanwhile, the step changes no page.
C15_FailureSurfaced ==
  [][LoginResumed /\ loginCall.st = "err" =>
       /\ route' = route
       /\ loginCall.live =>
            /\ route' = "/login"
            /\ loginPage' = [error |-> "check your credentials",
                             isLoggingIn |-> FALSE]
       /\ ~loginCall.live => loginPage' = loginPage]_vars

\* C15, the successful sign-in: when handleLogin resumes from a successful
\* sign-in the visitor is on the admin route, which shows the admin surface,
\* and no login page with a message is left.
C15_SuccessAdmin ==
  [][LoginResumed /\ loginCall.st = "ok" =>
       /\ route' = "/admin"
       /\ admin' # Null
       /\ loginPage' = Null]_vars

\* C15: a failed sign-in shows the credentials message on the login route,
\* without navigation and with the in-progress flag false; a successful
\* sign-in sets no message and navigates to the admin route.
C15_SignInOutcome == C15_FailureSurfaced /\ C15_SuccessAdmin

\* C16 as claimed: once a read of the initial load failed, the store shows
\* the default profile and empty lists.
C16_FailureLeavesDefaults ==
  consoleLog # {} =>
    userInfo = defaultUserInfo /\ experience = <<>> /\ projects = <<>>

\* this step hands a failed read to fetchData
FetchFails == fetchResp.st = "err" /\ fetchResp' = NoResp

\* C16 amended: a failed read of the initial load is logged, ends the load
\* and the loading state, and changes nothing of the local view: what the
\* reads before it delivered stays, the failed read and the reads after it
\* leave their defaults (the project list, read last, is empty; an
\* experience list is shown only next to the profile read before it).
C16_FailureKeepsLoaded ==
  /\ [][FetchFails =>
          /\ consoleLog' = consoleLog \cup {"Error fetching data from Firestore:"}
          /\ UNCHANGED localVars
          /\ fetchPc' = "done"
          /\ ~loading']_vars
  /\ [](consoleLog # {} =>
          /\ fetchPc = "done"
          /\ projects = <<>>
          /\ experience = <<>> \/ experience \in experienceQuery(rExperience)
          /\ userInfo \in {defaultUserInfo, rUserInfo}
          /\ experience # <<>> /\ rUserInfo # Null => userInfo = rUserInfo)

\* the projects read failed: profile and experience are shown, no project
C16_Witness ==
  /\ consoleLog # {}
  /\ rProjects # {}
  /\ userInfo = SeedUserInfo
  /\ experience = <<SeedExperience>>
  /\ projects = <<>>

\* this step resumes Header.handleLogout after a sign-out that succeeded
LogoutResumed == logoutCall = "ok" /\ logoutCall' = "none"

\* this step delivers the notification that there is no user
NullDelivered ==
  /\ authQueue # <<>>
  /\ Head(authQueue) = NoUser
  /\ authQueue' = Tail(authQueue)

\* C17: the step that resumes the header's handler after a successful
\* sign-out leaves the application on "/" without the admin surface; the
\* step that delivers the null identity sets the store's user to null,
\* removes the admin surface and moves the route only away from the admin
\* route; the admin surface is never rendered for a null user.  In either
\* order of the two steps the result is a null user on "/".
C17_SignOutEndsHome ==
  /\ [][/\ LogoutResumed => route' = "/" /\ admin' = Null
        /\ NullDelivered =>
             /\ user' = NoUser
             /\ admin' = Null
             /\ route # "/admin" => route' = route]_vars
  /\ [](user = NoUser => admin = Null)

\* signed out from the admin route: notification first, then the handler
C17_Witness ==
  /\ authCalls > 0
  /\ session = NoUser
  /\ logoutCall = "none"
  /\ authQueue = <<>>
  /\ user = NoUser
  /\ redirected = NoUser
  /\ route = "/"
  /\ admin = Null

\* how often entry e, and how often identity id, occurs in list l
countOf(l, e) == Cardinality({i \in DOMAIN l : l[i] = e})
idCount(l, id) == Cardinality({i \in DOMAIN l : l[i].id = id})

\* list after is list before with the entry added at some position
AddedOne(before, after, entry) ==
  /\ Len(after) = Len(before) + 1
  /\ \E k \in DOMAIN after :
       after[k] = entry /\ removeAt(after, k - 1) = before

\* list after holds the entries of list before, those with the identity of
\* entry replaced by entry
ReplacedById(before, after, entry) ==
  /\ Len(after) = Len(before)
  /\ idCount(after, entry.id) = idCount(before, entry.id)
  /\ \A i \in DOMAIN after : after[i].id = entry.id => after[i] = entry
  /\ \A i \in DOMAIN before :
       before[i].id # entry.id =>
         countOf(after, before[i]) = countOf(before, before[i])
  /\ idCount(before, entry.id) = 0 => SeqToSet(after) = SeqToSet(before)

\* list after is list before without the entries of the identity, the
\* others in their order
RemovedById(before, after, id) ==
  /\ IsSubSeq(after, before)
  /\ idCount(after, id) = 0
  /\ Len(after) = Len(before) - idCount(before, id)

\* the effect of the resolved operation op on its local list
AppliedAsClaimed(op, before, after) ==
  CASE op.kind \in AddKinds ->
         /\ AddedOne(before, after, withId(op.arg, op.newId))
         /\ withId(op.arg, op.newId) \in
              committed.projects \cup committed.experience
    [] op.kind \in UpdateKinds -> ReplacedById(before, after, op.arg)
    [] op.kind \in DeleteKinds -> RemovedById(before, after, op.arg.id)
    [] OTHER -> after = before

\* C18: when a store operation resumes from a write that succeeded, an add
\* makes its list one entry longer by the entry with the store's identity
\* and the submitted fields, an update replaces the entries of the given
\* identity and keeps the length (and the membership when no entry has the
\* identity), a delete removes the entries of the given identity and keeps
\* the order of the others; the other list is untouched.
C18_LocalEffect ==
  [][\A i \in DOMAIN ops :
       ResumedStep(i) /\ ops[i].status = "ok" =>
         /\ AppliedAsClaimed(ops[i],
              IF ops[i].kind \in ProjectKinds THEN projects ELSE experience,
              IF ops[i].kind \in ProjectKinds THEN projects' ELSE experience')
         /\ ops[i].kind \in ProjectKinds => experience' = experience
         /\ ops[i].kind \in ExperienceKinds => projects' = projects]_vars

\* an update of a stored project and an add have both completed
C18_Witness ==
  /\ ops = <<>>
  /\ Len(projects) = 2
  /\ SeedProject.id \in DOMAIN written
  /\ written[SeedProject.id] \notin {Null, SeedProject}
  /\ viewOf(SeedProject.id) = written[SeedProject.id]

\* C19: no identity is listed twice in the local project list or in the
\* local experience list.
C19_OneEntryPerId ==
  /\ \A id \in Ids(projects) : idCount(projects, id) = 1
  /\ \A id \in Ids(experience) : idCount(experience, id) = 1

\* the operation a handler has started in this step
Issued == ops'[Len(ops')]

\* C20: an update started by the submit of an edit form carries the
\* identity of the entry that seeded the form's draft; in particular an Add
\* draft (seeded from no entry) is never passed to an update.
C20_UpdateGoesToSeed ==
  [][started' = started + 1 =>
       /\ Issued.kind = "updateProject" =>
            Issued.arg.id = admin.projectForm.seededFrom
       /\ Issued.kind = "updateExperience" =>
            Issued.arg.id = admin.experienceForm.seededFrom]_vars

\* The store under the admin surface when every call settles and every
\* continuation runs: the document store answers each read and each write,
\* the identity provider delivers its notification, and the page resumes
\* what was waiting. What the admin does next is left open.
SpecSaving ==
  /\ InitAdminUTC
  /\ [][NextProjects]_vars
  /\ WF_vars(FetchActs)
  /\ WF_vars(onAuthStateChanged_callback)
  /\ WF_vars(WriteActs)

\* the three forms of the admin surface
Forms == {"projectForm", "experienceForm", "userInfoForm"}

\* form f is mounted and its submit button is disabled by the saving flag
Saving(f) == admin # Null /\ admin[f] # Null /\ admin[f].isSaving

\* C21: whenever a form's saving flag is true, it is eventually false
\* again (or the form is gone), whether the write succeeded or failed.
C21_SavingClears == \A f \in Forms : Saving(f) ~> ~Saving(f)

\* C22: while the project gallery is shown, its active filter is one of the
\* choices it offers: "All" or a technology of a project in the local list.
C22_FilterIsOffered ==
  projectsPage # Null =>
    includes(allTechnologies(projects), projectsPage.activeFilter)

\* Loading, identity and routing when the page makes progress: as long as a
\* read is outstanding or a notification is queued, one of the two is
\* delivered. Which of the two comes first, and whether the other ever
\* comes before the first has ended, is left open.
SpecLoad ==
  /\ Init
  /\ [][NextGate]_vars
  /\ WF_vars(FetchActs \/ onAuthStateChanged_callback)

\* fetchData has settled, after its last read or after a read that failed
FetchSettled == fetchPc = "done"

\* C23: once the initial fetch has settled (with or without an error) or
\* the first identity notification was delivered, loading is false; one of
\* the two happens, so loading eventually is false; and loading, once
\* false, is never true again.
C23_LoadingEnds ==
  /\ [](FetchSettled \/ authChecked => ~loading)
  /\ <>[](~loading)
  /\ [][~loading => ~loading']_vars

\* the fetch ended with an error while the identity check was still
\* outstanding, and loading is false
C23_Witness ==
  /\ FetchSettled
  /\ consoleLog # {}
  /\ ~authChecked
  /\ ~loading

====
